---- MODULE Spec2Model ----
(***************************************************************************)
(* A model of the viral-video kit generator: the `viral` command line      *)
(* (bin/viral.js), the public run() of src/index.js with its generators,   *)
(* the caption and storyboard compilers and the ffmpeg render pipeline.    *)
(*                                                                         *)
(* The module holds several specifications over one set of variables:      *)
(*   SpecAlloc       the rescale-and-reconcile block of generateScript     *)
(*   SpecAllocLive   the same block under its scheduling, for termination  *)
(*   SpecCaptions    splitForCaptions                                      *)
(*   SpecStoryboard  the scene loop of run() and toStoryboard              *)
(*   Spec            the command line, run() and renderVideo               *)
(*   SpecSetup       the command line with setupCommand                    *)
(*   SpecConfig      the configuration precedence of run()                 *)
(*   SpecPlan        the scenes and image prompts of the plan              *)
(*   SpecZoom        the zoom of one rendered segment                      *)
(*   SpecOrder       the order of the concat manifest                      *)
(*   SpecRerun       runs one after another into one kit directory         *)
(* A specification leaves the variables of the other components idle.      *)
(***************************************************************************)
EXTENDS Integers, Sequences, FiniteSets, TLC

VARIABLES
  \* ---- Duration Allocator (generateScript, index.js 198-209)
  aPc,          \* "idle" | "start" | "dec" | "inc" | "done" | "returned"
  aHasSections, \* data.sections is present in the backend response
  aSections,    \* the sec field of each section, a JS value
  aT,           \* cfg.VIDEO_SEC
  durations,    \* the elements of the durations array, JS values
  durMinus1,    \* the property "-1" of the durations array, a JS value
  aSum,         \* the running counter `sum`, a JS value
  aIters,       \* number of loop iterations executed so far
  planSections, \* the sec fields of plan.sections as generateScript returns them
  \* ---- Caption Compiler (splitForCaptions, index.js 270-283)
  cPc,          \* "idle" | "start" | "done"
  cText,        \* the narration text, a sequence of characters
  cT,           \* totalSec
  cParts,       \* the fragments after split / filter / slice
  cSpans,       \* the returned cue list
  \* ---- Storyboard Compiler (run 573-591, toStoryboard 314-322)
  sPc,          \* "idle" | "start" | "scenes" | "done"
  sT,           \* cfg.VIDEO_SEC
  sN,           \* cfg.SCENES_COUNT
  sSceneFiles,  \* sceneFiles: the scene image paths pushed by run's loop
  sRows,        \* the storyboard: the header row and the scene rows
  \* ---- Command line (bin/viral.js)
  argv,         \* process.argv.slice(2) while main still reads it
  cliPc,        \* "idle" | "start" | "create" | "exit", or a position of setupCommand
  exitCode,     \* the exit status, -1 while the process runs
  stderr,       \* what was printed to stderr, in order
  stdout,       \* what was printed to stdout, in order
  \* ---- run() and renderVideo (src/index.js)
  env,          \* process.env as read by createCommand and run
  userCfg,      \* the user configuration file as loaded by loadUserConfig
  topic,        \* the first argument of run
  options,      \* the second argument of run: dryRun, gender, style
  runPc,        \* the position of run / renderVideo
  runError,     \* the message of the error run threw, "" if none
  cfg,          \* the resolved configuration
  outDir,       \* the output directory
  plan,         \* the plan returned by generateScript
  sceneFiles,   \* the scene image paths pushed so far
  files,        \* the file system under cwd: path -> content
  dirs,         \* the directories created by ensureDir
  backendCalls, \* the generative-backend calls made, in order
  procs,        \* the ffmpeg processes spawned, in order
  lines,        \* the storyboard rows read by renderVideo
  segIdx,       \* the number of storyboard rows already encoded
  video,        \* the video handed to the audio stage
  audioBranch,  \* the branch taken by the audio stage
  extChanges,   \* changes made to the kit directory from outside
  \* ---- setupCommand (bin/viral.js 145-191)
  isTTY,             \* process.stdin.isTTY
  xdgConfigHome,     \* process.env.XDG_CONFIG_HOME, <<>> when unset
  OPENAI_API_KEY,    \* the local of setupCommand, a JS value
  ELEVENLABS_API_KEY, \* the local of setupCommand, a JS value
  configFiles,       \* the configuration files on disk: path -> content
  configBefore,      \* configFiles as it was when the command started
  \* ---- configuration of run (index.js 527-549)
  kPc,          \* "idle" | "start" | "resolved"
  kName,        \* the setting whose layers vary
  kEnvState,    \* its environment variable: "unset" | "empty" | "value"
  kUserState,   \* its entry in the user configuration, likewise
  kGender,      \* options.gender
  kEnv,         \* process.env, "" or <<>> where nothing is set
  kUser,        \* the user configuration, likewise
  kCfg,         \* cfg and OPENAI_API_KEY as resolved by run
  \* ---- the shape of the plan (generateScript 139-147, 211-223; run 573-583)
  pPc,          \* "idle" | "start" | "images" | "done" | "thrown"
  pDry,         \* dryRun
  pN,           \* cfg.SCENES_COUNT
  pT,           \* cfg.VIDEO_SEC
  pResponse,    \* data.image_prompts and the number of data.sections
  pScenes,      \* plan.scenes
  pImagePrompts, \* plan.imagePrompts
  pImages,      \* the names of the scene images run has generated, in order
  \* ---- the zoom of one segment (renderVideo 359-361)
  zPc,          \* "idle" | "frames" | "done"
  zDuration,    \* the duration of the storyboard row, in seconds
  zFrame,       \* the number of frames produced so far
  zZoom,        \* the zoom above 1.0, in units of 0.0001
  \* ---- the order of the concat manifest (run 579, renderVideo 343-381)
  oPc,          \* "idle" | "segments" | "concat" | "done"
  oN,           \* cfg.SCENES_COUNT
  oRows,        \* the file names of the storyboard rows, in order
  oSegs,        \* the names of the files in build/segs
  oManifest,    \* the segment names of concat.txt, in order
  \* ---- runs one after another into one kit directory (run 555-560, renderVideo 333-381)
  rPc,          \* "idle" | "start" | "segments" | "concat" | "done"
  rRun,         \* the number of runs started
  rN,           \* cfg.SCENES_COUNT of the current run
  rRows,        \* the file names of the current run's storyboard rows
  rIdx,         \* the number of rows already encoded in the current run
  rSegs,        \* the names of the files in build/segs
  rManifest     \* the segment names of the current run's concat.txt

allocVars == <<aPc, aHasSections, aSections, aT, durations, durMinus1, aSum, aIters, planSections>>
capVars   == <<cPc, cText, cT, cParts, cSpans>>
sbVars    == <<sPc, sT, sN, sSceneFiles, sRows>>
cliVars   == <<argv, cliPc, exitCode, stderr, stdout>>
runVars   == <<env, userCfg, topic, options, runPc, runError, cfg, outDir, plan, sceneFiles, files, dirs,
               backendCalls, procs, lines, segIdx, video, audioBranch, extChanges>>
setupVars == <<isTTY, xdgConfigHome, OPENAI_API_KEY, ELEVENLABS_API_KEY, configFiles, configBefore>>
confVars  == <<kPc, kName, kEnvState, kUserState, kGender, kEnv, kUser, kCfg>>
planVars  == <<pPc, pDry, pN, pT, pResponse, pScenes, pImagePrompts, pImages>>
zoomVars  == <<zPc, zDuration, zFrame, zZoom>>
orderVars == <<oPc, oN, oRows, oSegs, oManifest>>
rerunVars == <<rPc, rRun, rN, rRows, rIdx, rSegs, rManifest>>
vars      == <<allocVars, capVars, sbVars, cliVars, runVars, setupVars, confVars, planVars, zoomVars,
               orderVars, rerunVars>>

\* What each component leaves alone.
notAlloc ==
  <<capVars, sbVars, cliVars, runVars, setupVars, confVars, planVars, zoomVars, orderVars, rerunVars>>
notCap ==
  <<allocVars, sbVars, cliVars, runVars, setupVars, confVars, planVars, zoomVars, orderVars, rerunVars>>
notSb ==
  <<allocVars, capVars, cliVars, runVars, setupVars, confVars, planVars, zoomVars, orderVars, rerunVars>>
notMain ==
  <<allocVars, capVars, sbVars, setupVars, confVars, planVars, zoomVars, orderVars, rerunVars>>

\* --------------------------------------------------------------------------
\* Bounds of the model
\* --------------------------------------------------------------------------
MaxSections == 3
MaxSec == 3
NegSec == 1
MaxAllocT == 7

\* --------------------------------------------------------------------------
\* JavaScript values: numbers, NaN and undefined
\* --------------------------------------------------------------------------
Num(n) == [k |-> "num", v |-> n]
NaN    == [k |-> "nan", v |-> 0]
Undef  == [k |-> "undef", v |-> 0]

IsNum(x) == x.k = "num"

\* Math.round on the rational p / q, q > 0: halves round towards +Infinity.
RoundDiv(p, q) == (2 * p + q) \div (2 * q)

\* x + d for a JS value x and an integer d (undefined and NaN give NaN).
JsAddInt(x, d) == IF IsNum(x) THEN Num(x.v + d) ELSE NaN

\* a + b on JS values.
JsAdd(a, b) == IF IsNum(a) /\ IsNum(b) THEN Num(a.v + b.v) ELSE NaN

\* a > n and a < n for a JS value a and an integer n: false on NaN.
JsGe(a, n) == IsNum(a) /\ a.v >= n
JsGt(a, n) == IsNum(a) /\ a.v > n
JsLt(a, n) == IsNum(a) /\ a.v < n

RECURSIVE ReduceAdd(_, _)
\* arr.reduce((a, b) => a + b, 0) over JS values.
ReduceAdd(arr, acc) ==
  IF arr = <<>> THEN acc ELSE ReduceAdd(Tail(arr), JsAdd(acc, Head(arr)))

\* --------------------------------------------------------------------------
\* Duration Allocator
\* --------------------------------------------------------------------------
RECURSIVE SecTotal(_)
\* data.sections.reduce((a, b) => a + (b.sec || 0), 0): a missing, NaN or zero
\* sec counts as 0.
SecTotal(secs) ==
  IF secs = <<>> THEN 0
  ELSE (IF IsNum(Head(secs)) THEN Head(secs).v ELSE 0) + SecTotal(Tail(secs))

\* const total = data.sections?.reduce(...) || cfg.VIDEO_SEC
AllocTotal(has, secs, T) ==
  IF has /\ SecTotal(secs) # 0 THEN SecTotal(secs) ELSE T

\* Math.max(1, total)
AllocDenominator(has, secs, T) ==
  IF AllocTotal(has, secs, T) > 1 THEN AllocTotal(has, secs, T) ELSE 1

\* Math.max(2, Math.round(s.sec * scale)) with scale = T / Math.max(1, total);
\* the product is taken exactly (the double rounding of s.sec * scale is not
\* modelled). A missing sec gives NaN, which Math.round and Math.max keep.
ScaledDuration(sec, T, den) ==
  IF ~IsNum(sec) THEN NaN
  ELSE IF RoundDiv(sec.v * T, den) > 2 THEN Num(RoundDiv(sec.v * T, den)) ELSE Num(2)

\* let durations = data.sections?.map(...) || []
InitialDurations(has, secs, T) ==
  IF has THEN [i \in 1..Len(secs) |-> ScaledDuration(secs[i], T, AllocDenominator(has, secs, T))]
  ELSE <<>>

\* durations[durations.length - 1] += d: on an empty array the index is -1,
\* which is a property of the array object and not one of its elements.
BumpLast(durs, m1, d) ==
  IF Len(durs) = 0
  THEN [durs |-> durs, m1 |-> JsAddInt(m1, d)]
  ELSE [durs |-> [durs EXCEPT ![Len(durs)] = JsAddInt(@, d)], m1 |-> m1]

SecValues == {Num(n) : n \in (0 - NegSec)..MaxSec} \cup {Undef}

RECURSIVE SeqsUpTo(_, _)
\* All sequences over S of length at most n.
SeqsUpTo(S, n) ==
  IF n = 0 THEN {<<>>}
  ELSE SeqsUpTo(S, n - 1) \cup
       {Append(s, x) : s \in {t \in SeqsUpTo(S, n - 1) : Len(t) = n - 1}, x \in S}

AllocIdle ==
  /\ aPc = "idle"
  /\ aHasSections = FALSE
  /\ aSections = <<>>
  /\ aT = 0
  /\ durations = <<>>
  /\ durMinus1 = Undef
  /\ aSum = Num(0)
  /\ aIters = 0
  /\ planSections = <<>>

AllocInit ==
  /\ aPc = "start"
  /\ aHasSections \in BOOLEAN
  /\ aSections \in SeqsUpTo(SecValues, MaxSections)
  /\ (~aHasSections => aSections = <<>>)
  /\ aT \in 1..MaxAllocT
  /\ durations = <<>>
  /\ durMinus1 = Undef
  /\ aSum = Num(0)
  /\ aIters = 0
  /\ planSections = <<>>

\* Lines 198-201: total, scale, durations and sum.
AllocScale ==
  /\ aPc = "start"
  /\ durations' = InitialDurations(aHasSections, aSections, aT)
  /\ aSum' = ReduceAdd(durations', Num(0))
  /\ aPc' = "dec"
  /\ UNCHANGED <<aHasSections, aSections, aT, durMinus1, aIters, planSections>>
  /\ UNCHANGED notAlloc

\* Lines 202-205: one iteration of while (sum > cfg.VIDEO_SEC).
AllocDecrement ==
  /\ aPc = "dec"
  /\ JsGt(aSum, aT)
  /\ durations' = BumpLast(durations, durMinus1, -1).durs
  /\ durMinus1' = BumpLast(durations, durMinus1, -1).m1
  /\ aSum' = JsAddInt(aSum, -1)
  /\ aIters' = aIters + 1
  /\ UNCHANGED <<aPc, aHasSections, aSections, aT, planSections>>
  /\ UNCHANGED notAlloc

\* Line 202: the first loop's condition is false.
AllocDecrementExit ==
  /\ aPc = "dec"
  /\ ~JsGt(aSum, aT)
  /\ aPc' = "inc"
  /\ UNCHANGED <<aHasSections, aSections, aT, durations, durMinus1, aSum, aIters, planSections>>
  /\ UNCHANGED notAlloc

\* Lines 206-209: one iteration of while (sum < cfg.VIDEO_SEC).
AllocIncrement ==
  /\ aPc = "inc"
  /\ JsLt(aSum, aT)
  /\ durations' = BumpLast(durations, durMinus1, 1).durs
  /\ durMinus1' = BumpLast(durations, durMinus1, 1).m1
  /\ aSum' = JsAddInt(aSum, 1)
  /\ aIters' = aIters + 1
  /\ UNCHANGED <<aPc, aHasSections, aSections, aT, planSections>>
  /\ UNCHANGED notAlloc

\* Line 206: the second loop's condition is false.
AllocIncrementExit ==
  /\ aPc = "inc"
  /\ ~JsLt(aSum, aT)
  /\ aPc' = "done"
  /\ UNCHANGED <<aHasSections, aSections, aT, durations, durMinus1, aSum, aIters, planSections>>
  /\ UNCHANGED notAlloc

\* Line 228: sections: data.sections || []
PlanSections(has, secs) == IF has THEN secs ELSE <<>>

\* Lines 225-233: generateScript returns the plan; its sections are those of
\* the backend response, and durations is not part of it.
AllocReturn ==
  /\ aPc = "done"
  /\ planSections' = PlanSections(aHasSections, aSections)
  /\ aPc' = "returned"
  /\ UNCHANGED <<aHasSections, aSections, aT, durations, durMinus1, aSum, aIters>>
  /\ UNCHANGED notAlloc

AllocNext ==
  \/ AllocScale
  \/ AllocDecrement
  \/ AllocDecrementExit
  \/ AllocIncrement
  \/ AllocIncrementExit
  \/ AllocReturn

\* --------------------------------------------------------------------------
\* Caption Compiler
\* --------------------------------------------------------------------------
MaxTextLen == 4
MaxSentences == 12
MaxCapT == 24
\* .slice(0, 10)
MaxCues == 10

\* Characters of the narration texts explored: a letter, two sentence
\* terminals, a blank and a newline.
CapAlphabet == {"a", ".", "?", " ", "\n"}
Terminals == {".", "!", "?"}
Whitespace == {" ", "\n", "\t", "\r"}

RECURSIVE CollapseNewlines(_)
\* text.replace(/\n+/g, " "): each run of newlines becomes one blank.
CollapseNewlines(s) ==
  IF s = <<>> THEN <<>>
  ELSE IF Head(s) = "\n"
       THEN IF Len(s) > 1 /\ s[2] = "\n"
            THEN CollapseNewlines(Tail(s))
            ELSE <<" ">> \o CollapseNewlines(Tail(s))
       ELSE <<Head(s)>> \o CollapseNewlines(Tail(s))

RECURSIVE SkipWhitespace(_, _)
\* The index of the first character at or after i that is not whitespace.
SkipWhitespace(s, i) ==
  IF i <= Len(s) /\ s[i] \in Whitespace THEN SkipWhitespace(s, i + 1) ELSE i

RECURSIVE SplitFrom(_, _, _, _)
\* s.split(/(?<=[.!?])\s+/): a separator is a maximal run of whitespace that
\* directly follows a sentence terminal.
SplitFrom(s, i, cur, out) ==
  IF i > Len(s) THEN Append(out, cur)
  ELSE IF s[i] \in Whitespace /\ i > 1 /\ s[i - 1] \in Terminals
       THEN SplitFrom(s, SkipWhitespace(s, i), <<>>, Append(out, cur))
       ELSE SplitFrom(s, i + 1, Append(cur, s[i]), out)

\* .filter(Boolean): the empty strings are dropped.
FilterBoolean(parts) == SelectSeq(parts, LAMBDA p : p # <<>>)

\* .slice(0, 10)
KeepAllCues(parts) == parts
SliceCues(parts) == IF Len(parts) > MaxCues THEN SubSeq(parts, 1, MaxCues) ELSE parts

\* Line 271.
CaptionParts(text) ==
  SliceCues(FilterBoolean(SplitFrom(CollapseNewlines(text), 1, <<>>, <<>>)))

\* Line 272: Math.max(2, Math.floor(totalSec / Math.max(1, parts.length)))
CueEachNoFloor(n, T) == T \div (IF n > 1 THEN n ELSE 1)
CueEach(n, T) ==
  IF T \div (IF n > 1 THEN n ELSE 1) > 2 THEN T \div (IF n > 1 THEN n ELSE 1) ELSE 2

\* Line 277, with i counted from 1: the last cue ends at totalSec, the others
\* at Math.min(totalSec, t + each).
CueEndNoLastClamp(i, n, t, each, T) == IF t + each < T THEN t + each ELSE T
CueEnd(i, n, t, each, T) ==
  IF i = n THEN T ELSE IF t + each < T THEN t + each ELSE T

RECURSIVE BuildSpans(_, _, _, _, _)
\* Lines 273-280: the loop over the fragments; t is the running start.
BuildSpans(parts, i, t, T, spans) ==
  IF i > Len(parts) THEN spans
  ELSE BuildSpans(parts, i + 1, CueEnd(i, Len(parts), t, CueEach(Len(parts), T), T), T,
         Append(spans, [start |-> t,
                        end |-> CueEnd(i, Len(parts), t, CueEach(Len(parts), T), T),
                        text |-> parts[i]]))

\* Lines 270-283.
splitForCaptions(text, T) ==
  IF BuildSpans(CaptionParts(text), 1, 0, T, <<>>) = <<>>
  THEN <<[start |-> 0, end |-> T, text |-> text]>>
  ELSE BuildSpans(CaptionParts(text), 1, 0, T, <<>>)

RECURSIVE Repeat(_, _)
\* k copies of the sequence u.
Repeat(u, k) == IF k = 0 THEN <<>> ELSE u \o Repeat(u, k - 1)

\* The narration texts explored: every short text over the alphabet, and
\* texts of up to MaxSentences one-word sentences.
CapTexts ==
  SeqsUpTo(CapAlphabet, MaxTextLen) \cup {Repeat(<<"a", ".", " ">>, k) : k \in 0..MaxSentences}

CapIdle ==
  /\ cPc = "idle"
  /\ cText = <<>>
  /\ cT = 0
  /\ cParts = <<>>
  /\ cSpans = <<>>

CapInit ==
  /\ cPc = "start"
  /\ cText \in CapTexts
  /\ cT \in 1..MaxCapT
  /\ cParts = <<>>
  /\ cSpans = <<>>

\* A call of splitForCaptions(text, totalSec).
CapSplit ==
  /\ cPc = "start"
  /\ cParts' = CaptionParts(cText)
  /\ cSpans' = splitForCaptions(cText, cT)
  /\ cPc' = "done"
  /\ UNCHANGED <<cText, cT>>
  /\ UNCHANGED notCap

CapNext == CapSplit

\* --------------------------------------------------------------------------
\* Strings, paths and numerals
\* --------------------------------------------------------------------------
\* A string is the sequence of its characters; a path is the sequence of its
\* components.
DigitChars == <<"0", "1", "2", "3", "4", "5", "6", "7", "8", "9">>

RECURSIVE Digits(_)
\* String(n) for an integer n >= 0.
Digits(n) == IF n < 10 THEN <<DigitChars[n + 1]>> ELSE Digits(n \div 10) \o <<DigitChars[(n % 10) + 1]>>

\* The value of a digit character.
DigitValue(c) == CHOOSE d \in 0..9 : DigitChars[d + 1] = c

IsDigit(c) == \E d \in 0..9 : DigitChars[d + 1] = c

RECURSIVE ParseDigits(_, _, _)
ParseDigits(str, i, acc) ==
  IF i <= Len(str) /\ IsDigit(str[i]) THEN ParseDigits(str, i + 1, 10 * acc + DigitValue(str[i]))
  ELSE acc

\* parseInt(str, 10) on an unsigned numeral: the leading digits, NaN if none.
ParseInt(str) ==
  IF str # <<>> /\ IsDigit(str[1]) THEN Num(ParseDigits(str, 1, 0)) ELSE NaN

\* str.padStart(2, "0")
PadStart2(str) == IF Len(str) < 2 THEN Repeat(<<"0">>, 2 - Len(str)) \o str ELSE str

\* path.join: the empty components disappear.
PathJoin(dir, names) == dir \o SelectSeq(names, LAMBDA c : c # <<>>)

\* path.basename
Basename(path) == IF path = <<>> THEN <<>> ELSE path[Len(path)]

StrScene == <<"s", "c", "e", "n", "e">>
StrScenes == <<"s", "c", "e", "n", "e", "s">>
ExtPng == <<".", "p", "n", "g">>
StrBuild == <<"b", "u", "i", "l", "d">>
StrCwd == <<"c", "w", "d">>

\* --------------------------------------------------------------------------
\* Storyboard Compiler
\* --------------------------------------------------------------------------
MaxVideoSec == 60
MaxScenes == 7

\* Line 573: Math.round(cfg.VIDEO_SEC / cfg.SCENES_COUNT), SCENES_COUNT > 0.
PerSceneFloorPlusOne(T, N) == T \div N + 1
PerScene(T, N) == RoundDiv(T, N)

\* Line 579: `scene${String(i + 1).padStart(2, "0")}.png`, i counted from 0.
SceneName(i) == StrScene \o PadStart2(Digits(i + 1)) \o ExtPng

StoryboardHeader ==
  << <<"f", "i", "l", "e", "n", "a", "m", "e">>, <<"s", "t", "a", "r", "t">>,
     <<"d", "u", "r", "a", "t", "i", "o", "n">>, <<"c", "u", "e">> >>

\* Line 319: t += perScene
NextStartStuck(t, perScene) == t
NextStart(t, perScene) == t + perScene

RECURSIVE StoryboardRows(_, _, _, _)
\* Lines 316-320: the loop; i counted from 0, t the running start offset. A
\* row is its four comma-separated fields.
StoryboardRows(scenePngs, perScene, i, t) ==
  IF i >= Len(scenePngs) THEN <<>>
  ELSE << <<Basename(scenePngs[i + 1]), Digits(t), Digits(perScene), Digits(i + 1)>> >>
       \o StoryboardRows(scenePngs, perScene, i + 1, NextStart(t, perScene))

\* Lines 314-322: the rows of the CSV text, the header first.
toStoryboard(scenePngs, perScene) ==
  <<StoryboardHeader>> \o StoryboardRows(scenePngs, perScene, 0, 0)

SbScenesDir == <<StrCwd, StrBuild, <<"t">>, StrScenes>>

SbIdle ==
  /\ sPc = "idle"
  /\ sT = 0
  /\ sN = 0
  /\ sSceneFiles = <<>>
  /\ sRows = <<>>

SbInit ==
  /\ sPc = "start"
  /\ sT \in 1..MaxVideoSec
  /\ sN \in 1..MaxScenes
  /\ sSceneFiles = <<>>
  /\ sRows = <<>>

\* Lines 574-583: the scene loop of run pushes one path per scene.
SbSceneLoop ==
  /\ sPc = "start"
  /\ sSceneFiles' = [i \in 1..sN |-> PathJoin(SbScenesDir, <<SceneName(i - 1)>>)]
  /\ sPc' = "scenes"
  /\ UNCHANGED <<sT, sN, sRows>>
  /\ UNCHANGED notSb

\* Line 590: const storyboard = toStoryboard(sceneFiles, perScene)
SbCompile ==
  /\ sPc = "scenes"
  /\ sRows' = toStoryboard(sSceneFiles, PerScene(sT, sN))
  /\ sPc' = "done"
  /\ UNCHANGED <<sT, sN, sSceneFiles>>
  /\ UNCHANGED notSb

SbNext == SbSceneLoop \/ SbCompile

\* --------------------------------------------------------------------------
\* Command line: bin/viral.js
\* --------------------------------------------------------------------------
MaxArgs == 4

TokCreate == <<"c", "r", "e", "a", "t", "e">>
TokSetup == <<"s", "e", "t", "u", "p">>
TokTopic == <<"-", "-", "t", "o", "p", "i", "c">>
TokDryRun == <<"-", "-", "d", "r", "y", "-", "r", "u", "n">>
TokMale == <<"-", "-", "m", "a", "l", "e">>
TokFemale == <<"-", "-", "f", "e", "m", "a", "l", "e">>
\* The topic of the test suite, "Flag Test".
TokFlagTest == <<"F", "l", "a", "g", " ", "T", "e", "s", "t">>

\* The command-line tokens explored.
Tokens == {TokCreate, TokSetup, TokTopic, TokDryRun, TokMale, TokFemale, TokFlagTest}

\* cur.startsWith("--")
StartsWithDashes(tok) == Len(tok) >= 2 /\ tok[1] = "-" /\ tok[2] = "-"

\* cur.slice(2)
Slice2(tok) == SubSeq(tok, 3, Len(tok))

\* The values of a parsed argument: the literal true, or a string.
ArgTrue == [isTrue |-> TRUE, str |-> <<>>]
ArgStr(str) == [isTrue |-> FALSE, str |-> str]

\* Line 40: peek && !peek.startsWith("--"), peek = argv[i + 1] (i from 1 here).
HasValueAlways(av, i) == i + 1 <= Len(av) /\ av[i + 1] # <<>>
HasValue(av, i) == i + 1 <= Len(av) /\ av[i + 1] # <<>> /\ ~StartsWithDashes(av[i + 1])

RECURSIVE ParseFrom(_, _, _)
\* Lines 35-42: the loop of parseArgs; args maps the keys seen to their last
\* value, and a token taken as a value is skipped.
ParseFrom(av, i, args) ==
  IF i > Len(av) THEN args
  ELSE IF ~StartsWithDashes(av[i]) THEN ParseFrom(av, i + 1, args)
  ELSE IF HasValue(av, i)
       THEN ParseFrom(av, i + 2, (Slice2(av[i]) :> ArgStr(av[i + 1])) @@ args)
       ELSE ParseFrom(av, i + 1, (Slice2(av[i]) :> ArgTrue) @@ args)

\* Lines 33-44.
parseArgs(av) == ParseFrom(av, 1, <<>>)

\* args[key] is a string (typeof === "string"; a value is never empty).
ArgIsString(args, key) == key \in DOMAIN args /\ ~args[key].isTrue

\* args[key] === true
ArgIsTrue(args, key) == key \in DOMAIN args /\ args[key].isTrue

RECURSIVE PickGenderFrom(_, _, _)
\* Lines 48-51: the loop of pickGender; the last gender flag wins.
PickGenderFrom(av, i, gender) ==
  IF i > Len(av) THEN gender
  ELSE PickGenderFrom(av, i + 1,
         IF av[i] = TokFemale THEN "female" ELSE IF av[i] = TokMale THEN "male" ELSE gender)

\* Lines 46-53; "null" stands for null.
pickGender(av) == PickGenderFrom(av, 1, "null")

\* Line 217: argv[0] && !argv[0].startsWith("--") ? argv[0] : null (<<>> is null).
SubCommand(av) ==
  IF Len(av) > 0 /\ av[1] # <<>> /\ ~StartsWithDashes(av[1]) THEN av[1] ELSE <<>>

\* Lines 225-237: the argument list createCommand works on, when it is called.
CreateArgv(av) == IF SubCommand(av) = TokCreate THEN Tail(av) ELSE av

\* Lines 219-239: which command main dispatches to.
Dispatch(av) ==
  IF SubCommand(av) = TokSetup THEN "setup"
  ELSE IF SubCommand(av) = TokCreate THEN "create"
  ELSE IF Len(av) > 0 /\ StartsWithDashes(av[1]) THEN "create"
  ELSE "usage"

\* Line 198; env values are strings, "" when unset.
DryRunOf(args, dryRunEnv) ==
  ArgIsTrue(args, Slice2(TokDryRun)) \/ dryRunEnv = "1" \/ dryRunEnv = "true"

\* --------------------------------------------------------------------------
\* run(): names, slug and configuration
\* --------------------------------------------------------------------------
MaxRunScenes == 2

FScriptJson == <<"s", "c", "r", "i", "p", "t", ".", "j", "s", "o", "n">>
FVoiceoverTxt == <<"v", "o", "i", "c", "e", "o", "v", "e", "r", ".", "t", "x", "t">>
FVoiceoverMp3 == <<"v", "o", "i", "c", "e", "o", "v", "e", "r", ".", "m", "p", "3">>
FMusicMp3 == <<"m", "u", "s", "i", "c", ".", "m", "p", "3">>
FCaptionsAss == <<"c", "a", "p", "t", "i", "o", "n", "s", ".", "a", "s", "s">>
FStoryboardCsv == <<"s", "t", "o", "r", "y", "b", "o", "a", "r", "d", ".", "c", "s", "v">>
FReadmeMd == <<"R", "E", "A", "D", "M", "E", ".", "m", "d">>
StrAudio == <<"a", "u", "d", "i", "o">>
StrSegs == <<"s", "e", "g", "s">>
FConcatTxt == <<"c", "o", "n", "c", "a", "t", ".", "t", "x", "t">>
FNoCaptions == <<"v", "i", "d", "e", "o", "_", "n", "o", "c", "a", "p", "t", "i", "o", "n", "s", ".", "m", "p", "4">>
FWithCaptions == <<"v", "i", "d", "e", "o", "_", "c", "a", "p", "t", "i", "o", "n", "s", ".", "m", "p", "4">>
FOutputMp4 == <<"o", "u", "t", "p", "u", "t", ".", "m", "p", "4">>
ExtMp4 == <<".", "m", "p", "4">>
LowerAlnum ==
  {"a", "b", "c", "d", "e", "f", "g", "h", "i", "j", "k", "l", "m", "n", "o", "p", "q", "r",
   "s", "t", "u", "v", "w", "x", "y", "z", "0", "1", "2", "3", "4", "5", "6", "7", "8", "9"}

\* toLowerCase on the characters of the topics explored.
ToLower(c) == IF c = "F" THEN "f" ELSE IF c = "T" THEN "t" ELSE c

RECURSIVE DashRuns(_, _)
\* .replace(/[^a-z0-9]+/g, "-"): each run of other characters becomes one "-";
\* inRun says that the previous character was part of such a run.
DashRuns(str, inRun) ==
  IF str = <<>> THEN <<>>
  ELSE IF Head(str) \in LowerAlnum THEN <<Head(str)>> \o DashRuns(Tail(str), FALSE)
  ELSE IF inRun THEN DashRuns(Tail(str), TRUE)
  ELSE <<"-">> \o DashRuns(Tail(str), TRUE)

\* .replace(/(^-|-$)/g, ""): one leading and one trailing "-" are removed.
TrimDashes(str) ==
  IF str # <<>> /\ Head(str) = "-"
  THEN IF Len(str) > 1 /\ str[Len(str)] = "-" THEN SubSeq(str, 2, Len(str) - 1) ELSE Tail(str)
  ELSE IF str # <<>> /\ str[Len(str)] = "-" THEN SubSeq(str, 1, Len(str) - 1) ELSE str

\* Lines 107-109.
slugify(str) == TrimDashes(DashRuns([i \in 1..Len(str) |-> ToLower(str[i])], FALSE))

\* Line 556: path.join(process.cwd(), "build", slug)
OutDirOf(t) == PathJoin(<<StrCwd>>, <<StrBuild, slugify(t)>>)

\* Lines 78-85, the defaults the model reads.
DefaultVoice == "alloy"
DefaultVideoSec == 60
DefaultScenesCount == 6

\* a || b on strings: the first one that is not empty.
OrElseLowerFirst(a, b) == IF b # "" THEN b ELSE a
OrElse(a, b) == IF a # "" THEN a ELSE b

\* Lines 534, 543-544: env > user config > default, then the gender flag.
VoiceIgnoringGender(e, u, gender) == OrElse(e.TTS_VOICE, OrElse(u.TTS_VOICE, DefaultVoice))
ResolveVoice(e, u, gender) ==
  IF gender = "female" THEN "luna"
  ELSE IF gender = "male" THEN "alloy"
  ELSE OrElse(e.TTS_VOICE, OrElse(u.TTS_VOICE, DefaultVoice))

\* Line 536: parseInt(env || user || default, 10); the numerals are strings.
ResolveScenesCount(e, u) ==
  IF e.SCENES_COUNT # <<>> THEN ParseInt(e.SCENES_COUNT)
  ELSE IF u.SCENES_COUNT # <<>> THEN ParseInt(u.SCENES_COUNT)
  ELSE Num(DefaultScenesCount)

\* Line 535.
ResolveVideoSec(e, u) ==
  IF e.VIDEO_SEC # <<>> THEN ParseInt(e.VIDEO_SEC)
  ELSE IF u.VIDEO_SEC # <<>> THEN ParseInt(u.VIDEO_SEC)
  ELSE Num(DefaultVideoSec)

\* Line 549.
ResolveApiKey(e, u) == OrElse(e.OPENAI_API_KEY, u.OPENAI_API_KEY)

\* Lines 530-544.
ResolveCfg(e, u, gender) ==
  [TTS_VOICE |-> ResolveVoice(e, u, gender),
   VIDEO_SEC |-> ResolveVideoSec(e, u).v,
   SCENES_COUNT |-> ResolveScenesCount(e, u).v]

\* The environments and user configurations explored. DRY_RUN is read by
\* createCommand, the rest by run.
EnvUnread ==
  [DRY_RUN |-> "", OPENAI_API_KEY |-> "", TTS_VOICE |-> "", SCENES_COUNT |-> <<>>, VIDEO_SEC |-> <<>>]
DryRunEnvs == {"", "1"}
RunEnvs(dry) ==
  [DRY_RUN : {dry}, OPENAI_API_KEY : {"", "sk-env"}, TTS_VOICE : {"", "nova"},
   SCENES_COUNT : {Digits(n) : n \in 1..MaxRunScenes}, VIDEO_SEC : {<<>>}]
UserCfgs ==
  [OPENAI_API_KEY : {"", "sk-user"}, TTS_VOICE : {"", "echo"}, SCENES_COUNT : {<<>>},
   VIDEO_SEC : {<<>>}]
UserCfgUnread == [OPENAI_API_KEY |-> "", TTS_VOICE |-> "", SCENES_COUNT |-> <<>>, VIDEO_SEC |-> <<>>]

\* The directories ensureDir(p) creates: p and its ancestors below cwd.
DirsOf(path) == {SubSeq(path, 1, n) : n \in 2..Len(path)}

NoOptions == [dryRun |-> FALSE, gender |-> "null", style |-> "null"]
NoCfg == [TTS_VOICE |-> "", VIDEO_SEC |-> 0, SCENES_COUNT |-> 0]
NoPlan == [ttsStyle |-> <<>>, imagePrompts |-> 0, scenes |-> 0]

\* --------------------------------------------------------------------------
\* The command line and run(): actions
\* --------------------------------------------------------------------------
Argvs == SeqsUpTo(Tokens, MaxArgs)

\* fs.writeFile(path, content)
WriteFile(fs, path, content) == (path :> content) @@ fs

Exists(fs, path) == path \in DOMAIN fs

MainIdle ==
  /\ argv = <<>>
  /\ cliPc = "idle"
  /\ exitCode = -1
  /\ stderr = <<>>
  /\ stdout = <<>>
  /\ env = EnvUnread
  /\ userCfg = UserCfgUnread
  /\ topic = <<>>
  /\ options = NoOptions
  /\ runPc = "idle"
  /\ runError = ""
  /\ cfg = NoCfg
  /\ outDir = <<>>
  /\ plan = NoPlan
  /\ sceneFiles = <<>>
  /\ files = <<>>
  /\ dirs = {}
  /\ backendCalls = <<>>
  /\ procs = <<>>
  /\ lines = <<>>
  /\ segIdx = 0
  /\ video = <<>>
  /\ audioBranch = "none"
  /\ extChanges = {}

\* The process starts with some command line; nothing has run yet.
MainInit ==
  /\ argv \in Argvs
  /\ cliPc = "start"
  /\ exitCode = -1
  /\ stderr = <<>>
  /\ stdout = <<>>
  /\ env = EnvUnread
  /\ userCfg = UserCfgUnread
  /\ topic = <<>>
  /\ options = NoOptions
  /\ runPc = "idle"
  /\ runError = ""
  /\ cfg = NoCfg
  /\ outDir = <<>>
  /\ plan = NoPlan
  /\ sceneFiles = <<>>
  /\ files = <<>>
  /\ dirs = {}
  /\ backendCalls = <<>>
  /\ procs = <<>>
  /\ lines = <<>>
  /\ segIdx = 0
  /\ video = <<>>
  /\ audioBranch = "none"
  /\ extChanges = {}

runRest == <<userCfg, runError, cfg, outDir, plan, sceneFiles, files, dirs, backendCalls,
             procs, lines, segIdx, video, audioBranch, extChanges>>

\* bin/viral.js 213-240 with usage (73-107): main prints the usage and exits.
CliUsage ==
  /\ cliPc = "start"
  /\ Dispatch(argv) = "usage"
  /\ cliPc' = "exit"
  /\ exitCode' = 1
  /\ stderr' = Append(stderr, "usage")
  /\ UNCHANGED <<argv, stdout, runVars>>
  /\ UNCHANGED notMain

\* bin/viral.js 219-223: main hands over to setupCommand.
CliSetup ==
  /\ cliPc = "start"
  /\ Dispatch(argv) = "setup"
  /\ cliPc' = "setup"
  /\ UNCHANGED <<argv, exitCode, stderr, stdout, runVars>>
  /\ UNCHANGED notMain

\* bin/viral.js 193-197: createCommand without a string topic.
CliMissingTopic ==
  /\ cliPc = "start"
  /\ Dispatch(argv) = "create"
  /\ ~ArgIsString(parseArgs(CreateArgv(argv)), Slice2(TokTopic))
  /\ cliPc' = "exit"
  /\ exitCode' = 1
  /\ stderr' = stderr \o <<"missing-topic", "usage">>
  /\ UNCHANGED <<argv, stdout, runVars>>
  /\ UNCHANGED notMain

\* bin/viral.js 198-203: createCommand reads DRY_RUN, picks gender and style
\* and calls run(args.topic, {dryRun, gender, style}).
CliCreate ==
  /\ cliPc = "start"
  /\ Dispatch(argv) = "create"
  /\ ArgIsString(parseArgs(CreateArgv(argv)), Slice2(TokTopic))
  /\ \E d \in DryRunEnvs :
       /\ env' = [env EXCEPT !.DRY_RUN = d]
       /\ options' = [dryRun |-> DryRunOf(parseArgs(CreateArgv(argv)), d),
                      gender |-> pickGender(CreateArgv(argv)),
                      style |-> "null"]
  /\ topic' = parseArgs(CreateArgv(argv))[Slice2(TokTopic)].str
  /\ cliPc' = "create"
  /\ runPc' = "called"
  /\ UNCHANGED <<argv, exitCode, stderr, stdout, runRest>>
  /\ UNCHANGED notMain

\* index.js 549: if (!cfg.OPENAI_API_KEY && !dryRun) throw ...
NeedsKeyInDryRun(key, dryRun) == key = ""
NeedsKeyNever(key, dryRun) == FALSE
NeedsKey(key, dryRun) == key = "" /\ ~dryRun

\* index.js 522-560: run resolves the configuration, guards the API key and
\* creates the output directories. run is given the topic and the options
\* only: the command line is not read again, and the model drops it here.
RunStart ==
  /\ runPc = "called"
  /\ argv' = <<>>
  /\ \E e \in RunEnvs(env.DRY_RUN), u \in UserCfgs :
       /\ env' = e
       /\ userCfg' = u
       /\ cfg' = ResolveCfg(e, u, options.gender)
       /\ IF NeedsKey(ResolveApiKey(e, u), options.dryRun)
          THEN /\ runPc' = "thrown"
               /\ runError' = "Missing OPENAI_API_KEY"
               /\ UNCHANGED <<outDir, dirs>>
          ELSE /\ runPc' = "script"
               /\ outDir' = OutDirOf(topic)
               /\ dirs' = dirs \cup DirsOf(PathJoin(OutDirOf(topic), <<StrScenes>>))
                               \cup DirsOf(PathJoin(OutDirOf(topic), <<StrAudio>>))
               /\ UNCHANGED runError
  /\ UNCHANGED <<topic, options, plan, sceneFiles, files, backendCalls, procs, lines, segIdx,
                 video, audioBranch, extChanges>>
  /\ UNCHANGED <<cliPc, exitCode, stderr, stdout>>
  /\ UNCHANGED notMain

\* --------------------------------------------------------------------------
\* The generators
\* --------------------------------------------------------------------------
StyleSuffix == ", smooth, educational"

\* Lines 154 and 231: the default narration style, "male, smooth, educational".
DefaultTtsStyle == <<"male", StyleSuffix>>

\* The answers of the text backend explored: the request fails, the content
\* is not JSON, or a JSON object with or without a tts_style of its own.
ScriptReplies == {"error", "badjson", "nostyle", "style"}

\* Lines 139-156 (dry run) and 211-233: the plan; i.e. cfg.SCENES_COUNT scenes
\* and image prompts, and data.tts_style || "male, smooth, educational".
PlanOf(reply, c, dryRun) ==
  [ttsStyle |-> IF ~dryRun /\ reply = "style" THEN <<"female, calm">> ELSE DefaultTtsStyle,
   imagePrompts |-> c.SCENES_COUNT,
   scenes |-> c.SCENES_COUNT]

\* Lines 565-567: if (options.gender) plan.ttsStyle = `${options.gender}, smooth, educational`
OverrideTtsStyle(p, gender) ==
  IF gender # "null" THEN [p EXCEPT !.ttsStyle = <<gender, StyleSuffix>>] ELSE p

BackendCall(kind, voice) == [kind |-> kind, voice |-> voice]

\* Lines 562-571: generateScript, the ttsStyle override, script.json and
\* voiceover.txt. A dry run builds the placeholder plan without the backend.
GenerateScript ==
  /\ runPc = "script"
  /\ \E reply \in (IF options.dryRun THEN {"nostyle"} ELSE ScriptReplies) :
       /\ backendCalls' = IF options.dryRun THEN backendCalls
                          ELSE Append(backendCalls, BackendCall("script", ""))
       /\ IF reply \in {"error", "badjson"}
          THEN /\ runPc' = "thrown"
               /\ runError' = IF reply = "error" THEN "backend request failed"
                              ELSE "Model did not return valid JSON."
               /\ UNCHANGED <<plan, files>>
          ELSE /\ runPc' = "images"
               /\ plan' = OverrideTtsStyle(PlanOf(reply, cfg, options.dryRun), options.gender)
               /\ files' = WriteFile(
                             WriteFile(files, PathJoin(outDir, <<FScriptJson>>),
                                       [kind |-> "plan", data |-> plan']),
                             PathJoin(outDir, <<FVoiceoverTxt>>), [kind |-> "text", data |-> <<>>])
               /\ UNCHANGED runError
  /\ UNCHANGED <<env, userCfg, topic, options, cfg, outDir, sceneFiles, dirs, procs, lines,
                 segIdx, video, audioBranch, extChanges>>
  /\ UNCHANGED cliVars
  /\ UNCHANGED notMain

\* Lines 575-583 with generateImage (236-253): one turn of the scene loop. A
\* dry run writes an empty file; otherwise the image backend is asked, and
\* the request may fail.
GenerateImage ==
  /\ runPc = "images"
  /\ Len(sceneFiles) < cfg.SCENES_COUNT
  /\ \E ok \in (IF options.dryRun THEN {TRUE} ELSE BOOLEAN) :
       /\ backendCalls' = IF options.dryRun THEN backendCalls
                          ELSE Append(backendCalls, BackendCall("image", ""))
       /\ IF ok
          THEN /\ files' = WriteFile(files,
                             PathJoin(outDir, <<StrScenes, SceneName(Len(sceneFiles))>>),
                             [kind |-> IF options.dryRun THEN "empty" ELSE "png", data |-> <<>>])
               /\ sceneFiles' = Append(sceneFiles,
                                  PathJoin(outDir, <<StrScenes, SceneName(Len(sceneFiles))>>))
               /\ UNCHANGED <<runPc, runError>>
          ELSE /\ runPc' = "thrown"
               /\ runError' = "backend request failed"
               /\ UNCHANGED <<files, sceneFiles>>
  /\ UNCHANGED <<env, userCfg, topic, options, cfg, outDir, plan, dirs, procs, lines, segIdx,
                 video, audioBranch, extChanges>>
  /\ UNCHANGED cliVars
  /\ UNCHANGED notMain

\* Line 585 with synthesizeTTS (255-267), after the scene loop has ended.
SynthesizeTTS ==
  /\ runPc = "images"
  /\ Len(sceneFiles) >= cfg.SCENES_COUNT
  /\ \E ok \in (IF options.dryRun THEN {TRUE} ELSE BOOLEAN) :
       /\ backendCalls' = IF options.dryRun THEN backendCalls
                          ELSE Append(backendCalls, BackendCall("speech", cfg.TTS_VOICE))
       /\ IF ok
          THEN /\ files' = WriteFile(files, PathJoin(outDir, <<StrAudio, FVoiceoverMp3>>),
                             [kind |-> IF options.dryRun THEN "empty" ELSE "mp3", data |-> <<>>])
               /\ runPc' = "kit"
               /\ UNCHANGED runError
          ELSE /\ runPc' = "thrown"
               /\ runError' = "backend request failed"
               /\ UNCHANGED files
  /\ UNCHANGED <<env, userCfg, topic, options, cfg, outDir, plan, sceneFiles, dirs, procs, lines,
                 segIdx, video, audioBranch, extChanges>>
  /\ UNCHANGED cliVars
  /\ UNCHANGED notMain

\* --------------------------------------------------------------------------
\* ffmpeg processes
\* --------------------------------------------------------------------------
MaxExtChanges == 2

\* A process spawned by spawn("ffmpeg", ...). state: "running" (started),
\* "nostart" (it could not be started, its 'error' event is still to come),
\* "errored" ('error' was emitted, 'close' is still to come), "closed".
\* promise: "pending", "ok" (resolve() / resolve(true)) or "fail" (reject(...) /
\* resolve(false)). reason: what the promise was settled with, "pending"
\* until then: "none" (success), "spawn" (the error of the 'error' event) or
\* "exit" (the Error made by the close handler, false for the probe).
\* inputsOk: every input file existed at the spawn.
NewProc(stage, arg, out, inputsOk, started) ==
  [stage |-> stage, arg |-> arg, out |-> out, inputsOk |-> inputsOk,
   state |-> IF started THEN "running" ELSE "nostart", promise |-> "pending",
   reason |-> "pending"]

\* resolve / reject settle a promise once: later calls change nothing.
SettleLastWins(pr, outcome) == outcome
Settle(pr, outcome) == IF pr = "pending" THEN outcome ELSE pr

\* What a closing ffmpeg leaves on disk: with exit code 0 its output file,
\* otherwise nothing of the run is touched.
CloseFilesCleanup(fs, pr, code) ==
  IF code = 0 /\ pr.out # <<>> THEN WriteFile(fs, pr.out, [kind |-> "video", data |-> pr.stage])
  ELSE [q \in {r \in DOMAIN fs : fs[r].kind # "video"} |-> fs[q]]
CloseFiles(fs, pr, code) ==
  IF code = 0 /\ pr.out # <<>> THEN WriteFile(fs, pr.out, [kind |-> "video", data |-> pr.stage])
  ELSE fs

LastProc == procs[Len(procs)]

\* `await`: the caller goes on once the promise is settled.
NotAwaited(pr) == TRUE
Awaited(pr) == pr.promise # "pending"

\* An awaited promise that was rejected throws at the await.
RejectionSwallowed(pr) == FALSE
Rejected(pr) == pr.promise = "fail"

InFlight == {i \in 1..Len(procs) : procs[i].state = "running"}

\* p.on("error", reject) (lines 328, 370, 388, 398, 445, 478, 511).
ProcError ==
  /\ cliPc = "create"
  /\ \E i \in 1..Len(procs) :
       /\ procs[i].state = "nostart"
       /\ procs' = [procs EXCEPT ![i] = [@ EXCEPT !.state = "errored",
                                                  !.promise = Settle(@, "fail"),
                                                  !.reason = Settle(@, "spawn")]]
  /\ UNCHANGED <<env, userCfg, topic, options, runPc, runError, cfg, outDir, plan, sceneFiles,
                 files, dirs, backendCalls, lines, segIdx, video, audioBranch, extChanges>>
  /\ UNCHANGED cliVars
  /\ UNCHANGED notMain

\* p.on("close", (code) => code === 0 ? resolve() : reject(...)) (lines 329,
\* 371, 389, 399, 446, 479, 512). A process that ran exits with 0 or not, and
\* not with 0 when an input was missing; with 0 it has written its output. A
\* process that could not be started closes with a non-zero code.
ProcClose ==
  /\ cliPc = "create"
  /\ \E i \in 1..Len(procs) :
       \/ /\ procs[i].state = "running"
          /\ \E code \in (IF procs[i].inputsOk THEN {0, 1} ELSE {1}) :
               /\ procs' = [procs EXCEPT ![i] = [@ EXCEPT !.state = "closed",
                              !.promise = Settle(@, IF code = 0 THEN "ok" ELSE "fail"),
                              !.reason = Settle(@, IF code = 0 THEN "none" ELSE "exit")]]
               /\ files' = CloseFiles(files, procs[i], code)
       \/ /\ procs[i].state = "errored"
          /\ procs' = [procs EXCEPT ![i] = [@ EXCEPT !.state = "closed",
                                                     !.promise = Settle(@, "fail"),
                                                     !.reason = Settle(@, "exit")]]
          /\ UNCHANGED files
  /\ UNCHANGED <<env, userCfg, topic, options, runPc, runError, cfg, outDir, plan, sceneFiles,
                 dirs, backendCalls, lines, segIdx, video, audioBranch, extChanges>>
  /\ UNCHANGED cliVars
  /\ UNCHANGED notMain

\* --------------------------------------------------------------------------
\* The kit files and the ffmpeg probe
\* --------------------------------------------------------------------------
\* Lines 587-608: captions.ass, storyboard.csv and README.md; then a dry run
\* returns, and otherwise hasFfmpeg (325-331) spawns `ffmpeg -version`.
WriteKit ==
  /\ runPc = "kit"
  /\ files' = WriteFile(WriteFile(WriteFile(files,
                PathJoin(outDir, <<FCaptionsAss>>), [kind |-> "ass", data |-> <<>>]),
                PathJoin(outDir, <<FStoryboardCsv>>),
                [kind |-> "csv",
                 data |-> toStoryboard(sceneFiles, PerScene(cfg.VIDEO_SEC, cfg.SCENES_COUNT))]),
                PathJoin(outDir, <<FReadmeMd>>), [kind |-> "readme", data |-> cfg.TTS_VOICE])
  /\ IF options.dryRun
     THEN /\ runPc' = "returned"
          /\ UNCHANGED procs
     ELSE /\ runPc' = "probe"
          /\ \E started \in BOOLEAN :
               procs' = Append(procs, NewProc("probe", 0, <<>>, TRUE, started))
  /\ UNCHANGED <<env, userCfg, topic, options, runError, cfg, outDir, plan, sceneFiles, dirs,
                 backendCalls, lines, segIdx, video, audioBranch, extChanges>>
  /\ UNCHANGED cliVars
  /\ UNCHANGED notMain

\* The files of the kit directory that may disappear from outside while run
\* waits for the probe, and the music the user may put there.
Removable ==
  {PathJoin(outDir, <<StrAudio, FVoiceoverMp3>>), PathJoin(outDir, <<FCaptionsAss>>)}
    \cup {sceneFiles[i] : i \in 1..Len(sceneFiles)}
MusicPath == PathJoin(outDir, <<StrAudio, FMusicMp3>>)

\* The kit directory is an ordinary directory: while run awaits the probe,
\* the user adds audio/music.mp3 or a file of the kit is removed.
ExternalChange ==
  /\ runPc = "probe"
  /\ cliPc = "create"
  /\ Cardinality(extChanges) < MaxExtChanges
  /\ \/ /\ ~Exists(files, MusicPath)
        /\ files' = WriteFile(files, MusicPath, [kind |-> "mp3", data |-> <<>>])
        /\ extChanges' = extChanges \cup {MusicPath}
     \/ \E path \in Removable :
          /\ Exists(files, path)
          /\ files' = [q \in (DOMAIN files) \ {path} |-> files[q]]
          /\ extChanges' = extChanges \cup {path}
  /\ UNCHANGED <<env, userCfg, topic, options, runPc, runError, cfg, outDir, plan, sceneFiles,
                 dirs, backendCalls, procs, lines, segIdx, video, audioBranch>>
  /\ UNCHANGED cliVars
  /\ UNCHANGED notMain

\* --------------------------------------------------------------------------
\* renderVideo (index.js 333-519)
\* --------------------------------------------------------------------------
\* Characters in code-point order, for Array.prototype.sort on file names.
AsciiOrder ==
  <<".", "0", "1", "2", "3", "4", "5", "6", "7", "8", "9", "_", "a", "b", "c", "d", "e", "f",
    "g", "h", "i", "j", "k", "l", "m", "n", "o", "p", "q", "r", "s", "t", "u", "v", "w", "x",
    "y", "z">>
AsciiRank(c) == CHOOSE r \in 1..Len(AsciiOrder) : AsciiOrder[r] = c

RECURSIVE LexLess(_, _)
\* a < b as strings.
LexLess(a, b) ==
  IF b = <<>> THEN FALSE
  ELSE IF a = <<>> THEN TRUE
  ELSE IF Head(a) = Head(b) THEN LexLess(Tail(a), Tail(b))
  ELSE AsciiRank(Head(a)) < AsciiRank(Head(b))

RECURSIVE SortNames(_)
\* .sort() of a set of distinct names.
SortNames(S) ==
  IF S = {} THEN <<>>
  ELSE LET least == CHOOSE x \in S : \A y \in S \ {x} : LexLess(x, y)
       IN <<least>> \o SortNames(S \ {least})

\* f.endsWith(ext)
EndsWith(str, ext) ==
  Len(str) >= Len(ext) /\ SubSeq(str, Len(str) - Len(ext) + 1, Len(str)) = ext

\* Line 344: fname.replace(/\.png$/i, "")
StripPng(fname) == IF EndsWith(fname, ExtPng) THEN SubSeq(fname, 1, Len(fname) - 4) ELSE fname

BuildDir == PathJoin(outDir, <<StrBuild>>)
SegsDir == PathJoin(outDir, <<StrBuild, StrSegs>>)
NoCaptionsPath == PathJoin(BuildDir, <<FNoCaptions>>)
WithCaptionsPath == PathJoin(BuildDir, <<FWithCaptions>>)
VoicePath == PathJoin(outDir, <<StrAudio, FVoiceoverMp3>>)
OutputPath == PathJoin(outDir, <<FOutputMp4>>)
ConcatPath == PathJoin(BuildDir, <<FConcatTxt>>)

\* Lines 375-379: the .mp4 files of build/segs, sorted by name.
ConcatList(fs) ==
  LET names == {Basename(q) : q \in {r \in DOMAIN fs : Len(r) = Len(SegsDir) + 1
                                                       /\ SubSeq(r, 1, Len(SegsDir)) = SegsDir}}
      sorted == SortNames({n \in names : EndsWith(n, ExtMp4)})
  IN [k \in 1..Len(sorted) |-> PathJoin(SegsDir, <<sorted[k]>>)]

\* Lines 325-331 and 608-612: hasFfmpeg has answered. Without ffmpeg run
\* returns; with it renderVideo starts (333-339): build/segs is created and
\* the storyboard is read.
ProbeSettled ==
  /\ runPc = "probe"
  /\ Awaited(LastProc)
  /\ IF LastProc.promise = "fail"
     THEN /\ runPc' = "returned"
          /\ stdout' = Append(stdout, "ffmpeg not found")
          /\ UNCHANGED <<dirs, lines, runError>>
     ELSE /\ dirs' = dirs \cup DirsOf(SegsDir)
          /\ lines' = Tail(files[PathJoin(outDir, <<FStoryboardCsv>>)].data)
          /\ runPc' = "segs"
          /\ UNCHANGED <<stdout, runError>>
  /\ UNCHANGED <<env, userCfg, topic, options, cfg, outDir, plan, sceneFiles, files,
                 backendCalls, procs, segIdx, video, audioBranch, extChanges>>
  /\ UNCHANGED <<argv, cliPc, exitCode, stderr>>
  /\ UNCHANGED notMain

\* Lines 340-369: the next storyboard row; ffmpeg is spawned on its image.
SegSpawn ==
  /\ runPc = "segs"
  /\ segIdx < Len(lines)
  /\ \E started \in BOOLEAN :
       procs' = Append(procs,
                  NewProc("seg", segIdx + 1,
                          PathJoin(SegsDir, <<StripPng(lines[segIdx + 1][1]) \o ExtMp4>>),
                          Exists(files, PathJoin(outDir, <<StrScenes, lines[segIdx + 1][1]>>)),
                          started))
  /\ runPc' = "segWait"
  /\ UNCHANGED <<env, userCfg, topic, options, runError, cfg, outDir, plan, sceneFiles, files,
                 dirs, backendCalls, lines, segIdx, video, audioBranch, extChanges>>
  /\ UNCHANGED cliVars
  /\ UNCHANGED notMain

\* Lines 375-390: after the last row the manifest is written and the
\* concatenation is spawned.
ConcatSpawn ==
  /\ runPc = "segs"
  /\ segIdx >= Len(lines)
  /\ files' = WriteFile(files, ConcatPath, [kind |-> "concat", data |-> ConcatList(files)])
  /\ \E started \in BOOLEAN :
       procs' = Append(procs, NewProc("concat", 0, NoCaptionsPath,
                                      ConcatList(files) # <<>>, started))
  /\ runPc' = "concatWait"
  /\ UNCHANGED <<env, userCfg, topic, options, runError, cfg, outDir, plan, sceneFiles, dirs,
                 backendCalls, lines, segIdx, video, audioBranch, extChanges>>
  /\ UNCHANGED cliVars
  /\ UNCHANGED notMain

\* Lines 392-400: the caption burn is spawned.
BurnSpawn ==
  /\ runPc = "burn"
  /\ \E started \in BOOLEAN :
       procs' = Append(procs, NewProc("burn", 0, WithCaptionsPath,
                                      /\ Exists(files, NoCaptionsPath)
                                      /\ Exists(files, PathJoin(outDir, <<FCaptionsAss>>)),
                                      started))
  /\ runPc' = "burnWait"
  /\ video' = WithCaptionsPath
  /\ UNCHANGED <<env, userCfg, topic, options, runError, cfg, outDir, plan, sceneFiles, files,
                 dirs, backendCalls, lines, segIdx, audioBranch, extChanges>>
  /\ UNCHANGED cliVars
  /\ UNCHANGED notMain

\* The message of the rejection a stage's promise was settled with: the
\* spawn error, or the Error made by the stage's close handler.
StageError(pr) ==
  IF pr.reason = "spawn" THEN "spawn ffmpeg failed"
  ELSE CASE pr.stage = "seg" -> "ffmpeg seg fail"
         [] pr.stage = "concat" -> "concat fail"
         [] pr.stage = "burn" -> "burn captions fail"
         [] pr.stage = "mix" -> "audio mix fail"
         [] pr.stage = "muxVO" -> "mux VO fail"
         [] OTHER -> "mux music fail"

\* The `await new Promise(...)` of a stage (lines 346-372, 384-390, 394-400,
\* 411-447, 449-480, 482-513) gives control back: renderVideo goes on with
\* the next statement, or the rejection leaves renderVideo and run.
StageSettled ==
  /\ runPc \in {"segWait", "concatWait", "burnWait", "audioWait"}
  /\ Awaited(LastProc)
  /\ IF Rejected(LastProc)
     THEN /\ runPc' = "thrown"
          /\ runError' = StageError(LastProc)
          /\ UNCHANGED <<segIdx, stdout>>
     ELSE /\ runPc' = CASE runPc = "segWait" -> "segs"
                        [] runPc = "concatWait" -> "burn"
                        [] runPc = "burnWait" -> "audio"
                        [] OTHER -> "returned"
          /\ segIdx' = IF runPc = "segWait" THEN segIdx + 1 ELSE segIdx
          /\ stdout' = IF runPc = "audioWait" THEN Append(stdout, "Rendered") ELSE stdout
          /\ UNCHANGED runError
  /\ UNCHANGED <<env, userCfg, topic, options, cfg, outDir, plan, sceneFiles, files, dirs,
                 backendCalls, procs, lines, video, audioBranch, extChanges>>
  /\ UNCHANGED <<argv, cliPc, exitCode, stderr>>
  /\ UNCHANGED notMain

\* Lines 406-410, 448, 481, 514: which audio branch is taken.
AudioBranchIgnoringMusic(haveVO, haveBG) ==
  IF haveVO THEN "both" ELSE IF haveBG THEN "music" ELSE "neither"
AudioBranchOf(haveVO, haveBG) ==
  IF haveVO /\ haveBG THEN "both"
  ELSE IF haveVO THEN "voiceover"
  ELSE IF haveBG THEN "music"
  ELSE "neither"

\* The audio inputs (-i after the video) of the ffmpeg command of a branch:
\* lines 416-419, 457-460, 490-493.
AudioInputs(branch) ==
  CASE branch = "both" -> <<VoicePath, MusicPath>>
    [] branch = "voiceover" -> <<VoicePath>>
    [] branch = "music" -> <<MusicPath>>
    [] OTHER -> <<>>

\* The sidechain-ducking filter graph (lines 420-428) is part of the command
\* of the "both" branch only.
UsesDucking(stage) == stage = "mix"

BranchStage(branch) ==
  CASE branch = "both" -> "mix"
    [] branch = "voiceover" -> "muxVO"
    [] OTHER -> "muxMusic"

\* Lines 402-518: the two stats, then the branch: an ffmpeg mix or mux into
\* output.mp4, or the copy of the captioned video.
AudioStage ==
  /\ runPc = "audio"
  /\ audioBranch' = AudioBranchOf(Exists(files, VoicePath), Exists(files, MusicPath))
  /\ IF audioBranch' = "neither"
     THEN /\ files' = WriteFile(files, OutputPath, files[WithCaptionsPath])
          /\ stdout' = Append(stdout, "Rendered")
          /\ runPc' = "returned"
          /\ UNCHANGED procs
     ELSE /\ \E started \in BOOLEAN :
               procs' = Append(procs,
                          NewProc(BranchStage(audioBranch'), AudioInputs(audioBranch'), OutputPath,
                                  /\ Exists(files, WithCaptionsPath)
                                  /\ \A k \in 1..Len(AudioInputs(audioBranch')) :
                                       Exists(files, AudioInputs(audioBranch')[k]),
                                  started))
          /\ runPc' = "audioWait"
          /\ UNCHANGED <<files, stdout>>
  /\ UNCHANGED <<env, userCfg, topic, options, runError, cfg, outDir, plan, sceneFiles, dirs,
                 backendCalls, lines, segIdx, video, extChanges>>
  /\ UNCHANGED <<argv, cliPc, exitCode, stderr>>
  /\ UNCHANGED notMain

\* bin/viral.js 201-209: run has returned or thrown; createCommand reports
\* and the process ends.
CliExit ==
  /\ cliPc = "create"
  /\ runPc \in {"returned", "thrown"}
  /\ cliPc' = "exit"
  /\ IF runPc = "returned"
     THEN /\ exitCode' = 0
          /\ stdout' = IF options.dryRun THEN Append(stdout, "DRY_RUN complete") ELSE stdout
          /\ UNCHANGED stderr
     ELSE /\ exitCode' = 1
          /\ stderr' = Append(stderr, "viral failed")
          /\ UNCHANGED stdout
  /\ UNCHANGED <<argv, runVars>>
  /\ UNCHANGED notMain

\* --------------------------------------------------------------------------
\* setupCommand (bin/viral.js 145-191)
\* --------------------------------------------------------------------------
MaxSetupArgs == 4

TokOpenaiKey == <<"-", "-", "o", "p", "e", "n", "a", "i", "-", "k", "e", "y">>
TokElevenlabsKey ==
  <<"-", "-", "e", "l", "e", "v", "e", "n", "l", "a", "b", "s", "-", "k", "e", "y">>

\* The values explored on the command line and at the prompts: two keys, a
\* key with blanks around it, and a blank.
SetupValues == {<<"s", "k">>, <<" ", "s", "k", " ">>, <<"e", "l">>, <<" ">>}
SetupTokens == {TokOpenaiKey, TokElevenlabsKey} \cup SetupValues

\* What the user types at a prompt before Enter; "^C" is Ctrl+C.
TypedInputs == SetupValues \cup {<<>>}

\* JS values of the two locals: undefined, null, true or a string.
JsUndef == [k |-> "undef", s |-> <<>>]
JsNull == [k |-> "null", s |-> <<>>]
JsTrue == [k |-> "true", s |-> <<>>]
JsStr(str) == [k |-> "str", s |-> str]

\* args[key] of the parsed arguments as a JS value.
ArgValue(args, key) ==
  IF key \notin DOMAIN args THEN JsUndef
  ELSE IF args[key].isTrue THEN JsTrue ELSE JsStr(args[key].str)

\* !v is false
Truthy(v) == v.k = "true" \/ (v.k = "str" /\ v.s # <<>>)

RECURSIVE TrimStart(_)
TrimStart(str) ==
  IF str # <<>> /\ Head(str) \in Whitespace THEN TrimStart(Tail(str)) ELSE str

RECURSIVE TrimEnd(_)
TrimEnd(str) ==
  IF str # <<>> /\ str[Len(str)] \in Whitespace THEN TrimEnd(SubSeq(str, 1, Len(str) - 1))
  ELSE str

\* String.prototype.trim
NoTrim(str) == str
Trim(str) == TrimEnd(TrimStart(str))

StrHome == <<"h", "o", "m", "e">>
StrTmp == <<"t", "m", "p">>

\* configPaths (64-70): $XDG_CONFIG_HOME or ~/.config, then
\* viral-video/config.json.
ConfigDir(xdg) ==
  PathJoin(IF xdg # <<>> THEN <<xdg>> ELSE <<StrHome, <<".", "c", "o", "n", "f", "i", "g">> >>,
           << <<"v", "i", "r", "a", "l", "-", "v", "i", "d", "e", "o">> >>)
ConfigFile(xdg) ==
  PathJoin(ConfigDir(xdg), << <<"c", "o", "n", "f", "i", "g", ".", "j", "s", "o", "n">> >>)

\* A configuration saved by an earlier setup.
OldConfig == [OPENAI_API_KEY |-> <<"o", "l", "d">>]

\* Lines 162-165: !K || typeof K !== "string" || K.trim() === ""
KeyMissing(v) == ~Truthy(v) \/ v.k # "str" \/ Trim(v.s) = <<>>

\* Lines 167-174: the configuration object; no default flag (--voice, ...)
\* is among the tokens explored, so the filtered defaults are empty.
SetupCfg(key, eleven) ==
  IF Truthy(eleven) /\ Trim(eleven.s) # <<>>
  THEN [OPENAI_API_KEY |-> Trim(key.s), ELEVENLABS_API_KEY |-> Trim(eleven.s)]
  ELSE [OPENAI_API_KEY |-> Trim(key.s)]

SetupIdle ==
  /\ isTTY = FALSE
  /\ xdgConfigHome = <<>>
  /\ OPENAI_API_KEY = JsUndef
  /\ ELEVENLABS_API_KEY = JsUndef
  /\ configFiles = <<>>
  /\ configBefore = <<>>

notSetup ==
  <<allocVars, capVars, sbVars, runVars, confVars, planVars, zoomVars, orderVars, rerunVars>>

\* The command line is `setup` and up to MaxSetupArgs further tokens; the
\* terminal, XDG_CONFIG_HOME and an earlier configuration file vary.
SetupInit ==
  /\ argv \in {<<TokSetup>> \o rest : rest \in SeqsUpTo(SetupTokens, MaxSetupArgs)}
  /\ cliPc = "start"
  /\ exitCode = -1
  /\ stderr = <<>>
  /\ stdout = <<>>
  /\ isTTY \in BOOLEAN
  /\ xdgConfigHome \in {<<>>, StrTmp}
  /\ OPENAI_API_KEY = JsUndef
  /\ ELEVENLABS_API_KEY = JsUndef
  /\ configFiles \in {<<>>, ConfigFile(xdgConfigHome) :> OldConfig}
  /\ configBefore = configFiles
  /\ env = EnvUnread
  /\ userCfg = UserCfgUnread
  /\ topic = <<>>
  /\ options = NoOptions
  /\ runPc = "idle"
  /\ runError = ""
  /\ cfg = NoCfg
  /\ outDir = <<>>
  /\ plan = NoPlan
  /\ sceneFiles = <<>>
  /\ files = <<>>
  /\ dirs = {}
  /\ backendCalls = <<>>
  /\ procs = <<>>
  /\ lines = <<>>
  /\ segIdx = 0
  /\ video = <<>>
  /\ audioBranch = "none"
  /\ extChanges = {}

\* Lines 149-152: the flag, or the prompt when the flag gives nothing.
\* prompt (109-111) returns null when stdin is not a terminal.
SetupOpenaiKey ==
  /\ cliPc = "setup"
  /\ LET flag == ArgValue(parseArgs(Tail(argv)), Slice2(TokOpenaiKey))
     IN IF Truthy(flag)
        THEN /\ OPENAI_API_KEY' = flag
             /\ cliPc' = "elevenlabs"
        ELSE IF isTTY
        THEN /\ cliPc' = "promptOpenai"
             /\ UNCHANGED OPENAI_API_KEY
        ELSE /\ OPENAI_API_KEY' = JsNull
             /\ cliPc' = "elevenlabs"
  /\ UNCHANGED <<argv, exitCode, stderr, stdout>>
  /\ UNCHANGED <<isTTY, xdgConfigHome, ELEVENLABS_API_KEY, configFiles, configBefore>>
  /\ UNCHANGED notSetup

\* prompt with mask (112-131) answers: Enter resolves with what was typed,
\* untrimmed; Ctrl+C ends the process with status 1.
SetupPromptOpenai ==
  /\ cliPc = "promptOpenai"
  /\ \/ /\ \E typed \in TypedInputs : OPENAI_API_KEY' = JsStr(typed)
        /\ cliPc' = "elevenlabs"
        /\ UNCHANGED exitCode
     \/ /\ cliPc' = "exit"
        /\ exitCode' = 1
        /\ UNCHANGED OPENAI_API_KEY
  /\ UNCHANGED <<argv, stderr, stdout>>
  /\ UNCHANGED <<isTTY, xdgConfigHome, ELEVENLABS_API_KEY, configFiles, configBefore>>
  /\ UNCHANGED notSetup

\* Lines 155-159: the flag, or the optional prompt on a terminal.
SetupElevenlabsKey ==
  /\ cliPc = "elevenlabs"
  /\ LET flag == ArgValue(parseArgs(Tail(argv)), Slice2(TokElevenlabsKey))
     IN /\ ELEVENLABS_API_KEY' = flag
        /\ cliPc' = IF ~Truthy(flag) /\ isTTY THEN "promptElevenlabs" ELSE "save"
  /\ UNCHANGED <<argv, exitCode, stderr, stdout>>
  /\ UNCHANGED <<isTTY, xdgConfigHome, OPENAI_API_KEY, configFiles, configBefore>>
  /\ UNCHANGED notSetup

\* Lines 157-158: ELEVENLABS_API_KEY = (entered || "").trim()
SetupPromptElevenlabs ==
  /\ cliPc = "promptElevenlabs"
  /\ \/ /\ \E typed \in TypedInputs : ELEVENLABS_API_KEY' = JsStr(Trim(typed))
        /\ cliPc' = "save"
        /\ UNCHANGED exitCode
     \/ /\ cliPc' = "exit"
        /\ exitCode' = 1
        /\ UNCHANGED ELEVENLABS_API_KEY
  /\ UNCHANGED <<argv, stderr, stdout>>
  /\ UNCHANGED <<isTTY, xdgConfigHome, OPENAI_API_KEY, configFiles, configBefore>>
  /\ UNCHANGED notSetup

\* Lines 162-190: the key check, the configuration object, mkdir, writeFile
\* and the message. With --elevenlabs-key given without a value the local is
\* true and true.trim() throws a TypeError, which nothing catches.
SetupSave ==
  /\ cliPc = "save"
  /\ cliPc' = "exit"
  /\ IF KeyMissing(OPENAI_API_KEY)
     THEN /\ stderr' = Append(stderr, "Missing OPENAI_API_KEY")
          /\ exitCode' = 1
          /\ UNCHANGED <<configFiles, stdout>>
     ELSE IF ELEVENLABS_API_KEY.k = "true"
     THEN /\ stderr' = Append(stderr, "TypeError")
          /\ exitCode' = 1
          /\ UNCHANGED <<configFiles, stdout>>
     ELSE /\ configFiles' = (ConfigFile(xdgConfigHome)
                               :> SetupCfg(OPENAI_API_KEY, ELEVENLABS_API_KEY)) @@ configFiles
          /\ stdout' = Append(stdout, "Saved configuration")
          /\ exitCode' = 0
          /\ UNCHANGED stderr
  /\ UNCHANGED argv
  /\ UNCHANGED <<isTTY, xdgConfigHome, OPENAI_API_KEY, ELEVENLABS_API_KEY, configBefore>>
  /\ UNCHANGED notSetup

SetupNext ==
  \/ CliSetup
  \/ SetupOpenaiKey
  \/ SetupPromptOpenai
  \/ SetupElevenlabsKey
  \/ SetupPromptElevenlabs
  \/ SetupSave

\* --------------------------------------------------------------------------
\* Configuration precedence (index.js 527-549)
\* --------------------------------------------------------------------------
StringSettings == {"TEXT_MODEL", "IMAGE_MODEL", "TTS_MODEL", "TTS_VOICE", "OPENAI_API_KEY"}
NumberSettings == {"VIDEO_SEC", "SCENES_COUNT"}
Settings == StringSettings \cup NumberSettings

\* Lines 78-85: DEFAULTS; the API key has none (line 548: || "").
DefaultOf(name) ==
  CASE name = "TEXT_MODEL" -> "gpt-5"
    [] name = "IMAGE_MODEL" -> "gpt-image-1"
    [] name = "TTS_MODEL" -> "gpt-4o-mini-tts"
    [] name = "TTS_VOICE" -> DefaultVoice
    [] name = "VIDEO_SEC" -> DefaultVideoSec
    [] name = "SCENES_COUNT" -> DefaultScenesCount
    [] OTHER -> ""

\* The values explored for a layer: strings for the string settings,
\* numerals for the two numbers.
EnvValue(name) == IF name \in StringSettings THEN "from-env" ELSE <<"3", "0">>
UserValue(name) == IF name \in StringSettings THEN "from-user" ELSE <<"4", "5">>
EmptyValue(name) == IF name \in StringSettings THEN "" ELSE <<>>

\* A layer in which only `name` may be set: reading a variable that is not
\* set gives undefined, which || treats like the empty string.
Layer(name, state, value) ==
  [n \in Settings |-> IF n = name /\ state = "value" THEN value ELSE EmptyValue(n)]

\* Lines 530-548: the resolved configuration and the API key.
ResolveAll(e, u, gender) ==
  [TEXT_MODEL |-> OrElse(e.TEXT_MODEL, OrElse(u.TEXT_MODEL, DefaultOf("TEXT_MODEL"))),
   IMAGE_MODEL |-> OrElse(e.IMAGE_MODEL, OrElse(u.IMAGE_MODEL, DefaultOf("IMAGE_MODEL"))),
   TTS_MODEL |-> OrElse(e.TTS_MODEL, OrElse(u.TTS_MODEL, DefaultOf("TTS_MODEL"))),
   TTS_VOICE |-> ResolveVoice(e, u, gender),
   VIDEO_SEC |-> ResolveVideoSec(e, u),
   SCENES_COUNT |-> ResolveScenesCount(e, u),
   OPENAI_API_KEY |-> ResolveApiKey(e, u)]

ConfIdle ==
  /\ kPc = "idle"
  /\ kName = ""
  /\ kEnvState = "unset"
  /\ kUserState = "unset"
  /\ kGender = "null"
  /\ kEnv = <<>>
  /\ kUser = <<>>
  /\ kCfg = <<>>

LayerStates == {"unset", "empty", "value"}

ConfInit ==
  /\ kPc = "start"
  /\ kName \in Settings
  /\ kEnvState \in LayerStates
  /\ kUserState \in LayerStates
  /\ kGender \in {"null", "male", "female"}
  /\ kEnv = Layer(kName, kEnvState, EnvValue(kName))
  /\ kUser = Layer(kName, kUserState, UserValue(kName))
  /\ kCfg = <<>>

notConf ==
  <<allocVars, capVars, sbVars, cliVars, runVars, setupVars, planVars, zoomVars, orderVars, rerunVars>>

\* Lines 527-549.
ConfResolve ==
  /\ kPc = "start"
  /\ kCfg' = ResolveAll(kEnv, kUser, kGender)
  /\ kPc' = "resolved"
  /\ UNCHANGED <<kName, kEnvState, kUserState, kGender, kEnv, kUser>>
  /\ UNCHANGED notConf

ConfNext == ConfResolve

\* --------------------------------------------------------------------------
\* The shape of the plan (generateScript 139-147 and 211-223, run 573-583)
\* --------------------------------------------------------------------------
MaxPlanScenes == 3
MaxPlanT == 4
MaxPrompts == 4
MaxPlanSections == 2

\* The sections of the dry-run plan (lines 132-138).
DrySections == 5

\* data.image_prompts: missing, not an array, or an array whose items are
\* prompts ("p") or empty strings.
PromptResponses ==
  {[k |-> "missing", items |-> <<>>], [k |-> "notlist", items |-> <<>>]}
    \cup {[k |-> "list", items |-> l] : l \in SeqsUpTo({"p", ""}, MaxPrompts)}

Min(a, b) == IF a < b THEN a ELSE b

\* Line 219: Array.isArray(x) ? x.slice(0, n) : []
NoSlice(resp, n) == IF resp.k = "list" THEN resp.items ELSE <<>>
SlicePrompts(resp, n) ==
  IF resp.k = "list" THEN SubSeq(resp.items, 1, Min(n, Len(resp.items))) ELSE <<>>

\* Lines 220-222: while (imagePrompts.length < n) push(the fallback prompt)
PadPrompts(list, n) ==
  list \o [i \in 1..(IF n > Len(list) THEN n - Len(list) ELSE 0) |-> "fallback"]

RECURSIVE SceneLoop(_, _, _, _, _)
\* Lines 211-217: the loop; i and idx counted from 0. text is the number of
\* the section whose text is taken, 0 when it falls back to hook or title.
SceneLoop(i, idx, n, T, nSections) ==
  IF i >= n THEN <<>>
  ELSE <<[i |-> i + 1, sec |-> RoundDiv(T, n), text |-> IF idx < nSections THEN idx + 1 ELSE 0]>>
       \o SceneLoop(i + 1, Min(idx + 1, (IF nSections = 0 THEN 1 ELSE nSections) - 1), n, T,
                    nSections)

\* Lines 139-143: Array.from({length: n}, ...) of the dry run.
DryScenes(n, T) ==
  [i \in 1..n |-> [i |-> i, sec |-> RoundDiv(T, n), text |-> Min(i - 1, DrySections - 1) + 1]]

\* Lines 144-147.
DryPrompts(n) == [i \in 1..n |-> "placeholder"]

PlanIdle ==
  /\ pPc = "idle"
  /\ pDry = FALSE
  /\ pN = 0
  /\ pT = 0
  /\ pResponse = <<>>
  /\ pScenes = <<>>
  /\ pImagePrompts = <<>>
  /\ pImages = <<>>

PlanInit ==
  /\ pPc = "start"
  /\ pDry \in BOOLEAN
  /\ pN \in 0..MaxPlanScenes
  /\ pT \in 1..MaxPlanT
  /\ pResponse \in [prompts : PromptResponses, sections : 0..MaxPlanSections]
  /\ pScenes = <<>>
  /\ pImagePrompts = <<>>
  /\ pImages = <<>>

notPlan ==
  <<allocVars, capVars, sbVars, cliVars, runVars, setupVars, confVars, zoomVars, orderVars, rerunVars>>

\* generateScript: the scenes and the image prompts of the returned plan.
PlanGenerate ==
  /\ pPc = "start"
  /\ pScenes' = IF pDry THEN DryScenes(pN, pT)
                ELSE SceneLoop(0, 0, pN, pT, pResponse.sections)
  /\ pImagePrompts' = IF pDry THEN DryPrompts(pN)
                      ELSE PadPrompts(SlicePrompts(pResponse.prompts, pN), pN)
  /\ pPc' = "images"
  /\ UNCHANGED <<pDry, pN, pT, pResponse, pImages>>
  /\ UNCHANGED notPlan

\* run 574-583: one turn of the scene loop; outside a dry run the image
\* request may fail, which ends run.
PlanImage ==
  /\ pPc = "images"
  /\ Len(pImages) < pN
  /\ \E ok \in (IF pDry THEN {TRUE} ELSE BOOLEAN) :
       IF ok THEN /\ pImages' = Append(pImages, SceneName(Len(pImages)))
                  /\ UNCHANGED pPc
       ELSE /\ pPc' = "thrown"
            /\ UNCHANGED pImages
  /\ UNCHANGED <<pDry, pN, pT, pResponse, pScenes, pImagePrompts>>
  /\ UNCHANGED notPlan

\* run 574: the loop ends.
PlanImagesDone ==
  /\ pPc = "images"
  /\ Len(pImages) >= pN
  /\ pPc' = "done"
  /\ UNCHANGED <<pDry, pN, pT, pResponse, pScenes, pImagePrompts, pImages>>
  /\ UNCHANGED notPlan

PlanNext ==
  \/ PlanGenerate
  \/ PlanImage
  \/ PlanImagesDone

\* --------------------------------------------------------------------------
\* The zoom of one segment (renderVideo 359-361, make_tiktok_v2.sh 88-92)
\* --------------------------------------------------------------------------
MaxZoomSec == 10
\* const FPS = 30
FPS == 30
\* zoompan z='min(zoom+0.0009,1.06)', in units of 0.0001 above 1.0.
ZoomStep == 9
ZoomCap == 600

\* d=${duration * FPS}: the number of frames of the segment.
SegmentFrames(d) == d * FPS

\* min(zoom + 0.0009, 1.06)
ZoomExpr(zoom) == Min(zoom + ZoomStep, ZoomCap)

ZoomIdle ==
  /\ zPc = "idle"
  /\ zDuration = 0
  /\ zFrame = 0
  /\ zZoom = 0

ZoomInit ==
  /\ zPc = "frames"
  /\ zDuration \in 1..MaxZoomSec
  /\ zFrame = 0
  /\ zZoom = 0

notZoom ==
  <<allocVars, capVars, sbVars, cliVars, runVars, setupVars, confVars, planVars, orderVars, rerunVars>>

\* zoompan produces one frame: the zoom expression is evaluated on the zoom
\* of the frame before.
ZoomFrame ==
  /\ zPc = "frames"
  /\ zFrame < SegmentFrames(zDuration)
  /\ zZoom' = ZoomExpr(zZoom)
  /\ zFrame' = zFrame + 1
  /\ UNCHANGED <<zPc, zDuration>>
  /\ UNCHANGED notZoom

\* The segment has its d frames.
ZoomEnd ==
  /\ zPc = "frames"
  /\ zFrame >= SegmentFrames(zDuration)
  /\ zPc' = "done"
  /\ UNCHANGED <<zDuration, zFrame, zZoom>>
  /\ UNCHANGED notZoom

ZoomNext ==
  \/ ZoomFrame
  \/ ZoomEnd

\* --------------------------------------------------------------------------
\* The order of the concat manifest (run 579, renderVideo 343-381)
\* --------------------------------------------------------------------------
MaxOrderN == 101

\* Line 346: `${base}.mp4`
SegName(fname) == StripPng(fname) \o ExtMp4

OrderIdle ==
  /\ oPc = "idle"
  /\ oN = 0
  /\ oRows = <<>>
  /\ oSegs = {}
  /\ oManifest = <<>>

\* run has written the scene files and the storyboard of oN rows; build/segs
\* is empty.
OrderInit ==
  /\ oPc = "segments"
  /\ oN \in 1..MaxOrderN
  /\ oRows = [k \in 1..oN |-> SceneName(k - 1)]
  /\ oSegs = {}
  /\ oManifest = <<>>

notOrder ==
  <<allocVars, capVars, sbVars, cliVars, runVars, setupVars, confVars, planVars, zoomVars, rerunVars>>

\* Lines 340-372: the next storyboard row is encoded into build/segs.
OrderSegment ==
  /\ oPc = "segments"
  /\ Cardinality(oSegs) < Len(oRows)
  /\ oSegs' = oSegs \cup {SegName(oRows[Cardinality(oSegs) + 1])}
  /\ UNCHANGED <<oPc, oN, oRows, oManifest>>
  /\ UNCHANGED notOrder

\* Line 340: the loop over the rows ends.
OrderSegmentsDone ==
  /\ oPc = "segments"
  /\ Cardinality(oSegs) >= Len(oRows)
  /\ oPc' = "concat"
  /\ UNCHANGED <<oN, oRows, oSegs, oManifest>>
  /\ UNCHANGED notOrder

\* Lines 375-381: readdir, filter, sort, write concat.txt.
OrderConcat ==
  /\ oPc = "concat"
  /\ oManifest' = SortNames({f \in oSegs : EndsWith(f, ExtMp4)})
  /\ oPc' = "done"
  /\ UNCHANGED <<oN, oRows, oSegs>>
  /\ UNCHANGED notOrder

OrderNext ==
  \/ OrderSegment
  \/ OrderSegmentsDone
  \/ OrderConcat

\* --------------------------------------------------------------------------
\* Runs one after another into one kit directory (run 555-560, renderVideo)
\* --------------------------------------------------------------------------
MaxRerunScenes == 3
MaxRuns == 4

RerunIdle ==
  /\ rPc = "idle"
  /\ rRun = 0
  /\ rN = 0
  /\ rRows = <<>>
  /\ rIdx = 0
  /\ rSegs = {}
  /\ rManifest = <<>>

\* A fresh working directory: no run yet, build/segs does not exist.
RerunInit ==
  /\ rPc = "start"
  /\ rRun = 0
  /\ rN = 0
  /\ rRows = <<>>
  /\ rIdx = 0
  /\ rSegs = {}
  /\ rManifest = <<>>

notRerun ==
  <<allocVars, capVars, sbVars, cliVars, runVars, setupVars, confVars, planVars, zoomVars, orderVars>>

\* run 530-590 and renderVideo 333-339 of one more run of the same topic:
\* the scene count is configured, the scene files and the storyboard are
\* written, and ensureDir(build/segs) keeps what the directory holds.
RerunStart ==
  /\ rPc \in {"start", "done"}
  /\ rRun < MaxRuns
  /\ \E n \in 1..MaxRerunScenes :
       /\ rN' = n
       /\ rRows' = [k \in 1..n |-> SceneName(k - 1)]
  /\ rRun' = rRun + 1
  /\ rIdx' = 0
  /\ rManifest' = <<>>
  /\ rPc' = "segments"
  /\ UNCHANGED rSegs
  /\ UNCHANGED notRerun

\* Lines 340-372: the next row is encoded; ffmpeg -y replaces a segment of
\* the same name.
RerunSegment ==
  /\ rPc = "segments"
  /\ rIdx < Len(rRows)
  /\ rSegs' = rSegs \cup {SegName(rRows[rIdx + 1])}
  /\ rIdx' = rIdx + 1
  /\ UNCHANGED <<rPc, rRun, rN, rRows, rManifest>>
  /\ UNCHANGED notRerun

\* Line 340: the loop over the rows ends.
RerunSegmentsDone ==
  /\ rPc = "segments"
  /\ rIdx >= Len(rRows)
  /\ rPc' = "concat"
  /\ UNCHANGED <<rRun, rN, rRows, rIdx, rSegs, rManifest>>
  /\ UNCHANGED notRerun

\* Lines 375-381: readdir, filter, sort, write concat.txt.
RerunConcat ==
  /\ rPc = "concat"
  /\ rManifest' = SortNames({f \in rSegs : EndsWith(f, ExtMp4)})
  /\ rPc' = "done"
  /\ UNCHANGED <<rRun, rN, rRows, rIdx, rSegs>>
  /\ UNCHANGED notRerun

RerunNext ==
  \/ RerunStart
  \/ RerunSegment
  \/ RerunSegmentsDone
  \/ RerunConcat

\* --------------------------------------------------------------------------
\* Specifications
\* --------------------------------------------------------------------------
InitAlloc == AllocInit /\ CapIdle /\ SbIdle /\ MainIdle /\ SetupIdle /\ ConfIdle /\ PlanIdle /\ ZoomIdle
  /\ OrderIdle /\ RerunIdle
SpecAlloc == InitAlloc /\ [][AllocNext]_vars

\* The block is synchronous code on one thread: once entered it keeps
\* executing until it returns.
SpecAllocLive == InitAlloc /\ [][AllocNext]_vars /\ WF_vars(AllocNext)

InitCaptions == CapInit /\ AllocIdle /\ SbIdle /\ MainIdle /\ SetupIdle /\ ConfIdle /\ PlanIdle /\ ZoomIdle
  /\ OrderIdle /\ RerunIdle
SpecCaptions == InitCaptions /\ [][CapNext]_vars

InitStoryboard == SbInit /\ AllocIdle /\ CapIdle /\ MainIdle /\ SetupIdle /\ ConfIdle /\ PlanIdle /\ ZoomIdle
  /\ OrderIdle /\ RerunIdle
SpecStoryboard == InitStoryboard /\ [][SbNext]_vars

InitMain == MainInit /\ AllocIdle /\ CapIdle /\ SbIdle /\ SetupIdle /\ ConfIdle /\ PlanIdle /\ ZoomIdle
  /\ OrderIdle /\ RerunIdle
Next ==
  \/ CliUsage
  \/ CliSetup
  \/ CliMissingTopic
  \/ CliCreate
  \/ RunStart
  \/ GenerateScript
  \/ GenerateImage
  \/ SynthesizeTTS
  \/ WriteKit
  \/ ExternalChange
  \/ ProcError
  \/ ProcClose
  \/ ProbeSettled
  \/ SegSpawn
  \/ ConcatSpawn
  \/ BurnSpawn
  \/ StageSettled
  \/ AudioStage
  \/ CliExit
Spec == InitMain /\ [][Next]_vars

InitSetup == SetupInit /\ AllocIdle /\ CapIdle /\ SbIdle /\ ConfIdle /\ PlanIdle /\ ZoomIdle
  /\ OrderIdle /\ RerunIdle
SpecSetup == InitSetup /\ [][SetupNext]_vars

InitConfig == ConfInit /\ AllocIdle /\ CapIdle /\ SbIdle /\ MainIdle /\ SetupIdle /\ PlanIdle /\ ZoomIdle
  /\ OrderIdle /\ RerunIdle
SpecConfig == InitConfig /\ [][ConfNext]_vars

InitPlan == PlanInit /\ AllocIdle /\ CapIdle /\ SbIdle /\ MainIdle /\ SetupIdle /\ ConfIdle /\ ZoomIdle
  /\ OrderIdle /\ RerunIdle
SpecPlan == InitPlan /\ [][PlanNext]_vars

InitZoom == ZoomInit /\ AllocIdle /\ CapIdle /\ SbIdle /\ MainIdle /\ SetupIdle /\ ConfIdle /\ PlanIdle
  /\ OrderIdle /\ RerunIdle
SpecZoom == InitZoom /\ [][ZoomNext]_vars

InitOrder == OrderInit /\ AllocIdle /\ CapIdle /\ SbIdle /\ MainIdle /\ SetupIdle /\ ConfIdle /\ PlanIdle
  /\ ZoomIdle /\ RerunIdle
SpecOrder == InitOrder /\ [][OrderNext]_vars

InitRerun == RerunInit /\ AllocIdle /\ CapIdle /\ SbIdle /\ MainIdle /\ SetupIdle /\ ConfIdle /\ PlanIdle
  /\ ZoomIdle /\ OrderIdle
SpecRerun == InitRerun /\ [][RerunNext]_vars

\* --------------------------------------------------------------------------
\* Claims
\* --------------------------------------------------------------------------
AllNumeric(secs) == \A i \in 1..Len(secs) : IsNum(secs[i])

\* C1 (as stated): for every positive T and every list of numeric section
\* seconds, the empty list included, the elements of the durations list sum
\* exactly to T once the two reconciliation loops have finished.
C1_DurationsSumToT ==
  (aPc = "done" /\ AllNumeric(aSections)) => ReduceAdd(durations, Num(0)) = Num(aT)

\* C2: for every narration text and positive T the cue list has at most 10
\* cues, starts at 0, ends exactly at T, and each cue starts where the
\* previous one ends (no overlap, no gap).
C2_CuesContiguous ==
  cPc = "done" =>
    /\ Len(cSpans) >= 1
    /\ Len(cSpans) <= 10
    /\ cSpans[1].start = 0
    /\ cSpans[Len(cSpans)].end = cT
    /\ \A i \in 1..Len(cSpans) : cSpans[i].start <= cSpans[i].end
    /\ \A i \in 1..(Len(cSpans) - 1) : cSpans[i + 1].start = cSpans[i].end

\* C2 witness: a text of more than 10 fragments cut to 10 cues, with T so
\* large that no cue before the last is clamped.
C2_Witness ==
  /\ cPc = "done"
  /\ Len(SplitFrom(CollapseNewlines(cText), 1, <<>>, <<>>)) > 11
  /\ Len(cSpans) = 10
  /\ cSpans[9].end < cT

\* C3: the storyboard is the header row followed by exactly N rows in input
\* order; 0-based row i has the basename of scene i, start offset i * D,
\* duration D and cue index i + 1, so each row starts where the previous one
\* ends; for 6 scenes and 60 seconds the offsets are 0, 10, ..., 50 and the
\* durations are all 10.
C3_StoryboardRows ==
  sPc = "done" =>
    /\ Len(sRows) = sN + 1
    /\ sRows[1] = StoryboardHeader
    /\ \A i \in 0..(sN - 1) :
         /\ sRows[i + 2][1] = Basename(sSceneFiles[i + 1])
         /\ sRows[i + 2][1] = SceneName(i)
         /\ ParseInt(sRows[i + 2][2]) = Num(i * PerScene(sT, sN))
         /\ ParseInt(sRows[i + 2][3]) = Num(PerScene(sT, sN))
         /\ ParseInt(sRows[i + 2][4]) = Num(i + 1)
    /\ \A i \in 2..sN :
         ParseInt(sRows[i + 1][2]).v = ParseInt(sRows[i][2]).v + ParseInt(sRows[i][3]).v
    /\ (sN = 6 /\ sT = 60) =>
         \A i \in 0..5 : /\ sRows[i + 2][2] = Digits(10 * i)
                         /\ sRows[i + 2][3] = <<"1", "0">>

\* C3 witness: the 6-scene, 60-second storyboard, whose last row starts at 50.
C3_Witness ==
  /\ sPc = "done"
  /\ sN = 6
  /\ sT = 60
  /\ Len(sRows) = 7
  /\ sRows[7] = <<SceneName(5), <<"5", "0">>, <<"1", "0">>, <<"6">> >>

\* The ffmpeg processes of the audio stage, in spawn order.
AudioProcs == {i \in 1..Len(procs) : procs[i].stage \in {"mix", "muxVO", "muxMusic"}}

\* C4: for each combination of (voiceover present, music present) exactly
\* one audio branch runs: both -> the ducking mix of video, voiceover and
\* music; voiceover only -> a mux of video and voiceover; music only -> a mux
\* of video and music; neither -> no ffmpeg at all, the captioned video is
\* copied to output.mp4. Without music the ducking chain is never invoked.
C4_AudioBranch ==
  audioBranch # "none" =>
    LET haveVO == Exists(files, VoicePath)
        haveBG == Exists(files, MusicPath)
    IN /\ (haveVO /\ haveBG) =>
            /\ Cardinality(AudioProcs) = 1
            /\ \A i \in AudioProcs : /\ procs[i].stage = "mix"
                                     /\ UsesDucking(procs[i].stage)
                                     /\ procs[i].arg = <<VoicePath, MusicPath>>
       /\ (haveVO /\ ~haveBG) =>
            /\ Cardinality(AudioProcs) = 1
            /\ \A i \in AudioProcs : /\ procs[i].stage = "muxVO"
                                     /\ procs[i].arg = <<VoicePath>>
       /\ (~haveVO /\ haveBG) =>
            /\ Cardinality(AudioProcs) = 1
            /\ \A i \in AudioProcs : /\ procs[i].stage = "muxMusic"
                                     /\ procs[i].arg = <<MusicPath>>
       /\ (~haveVO /\ ~haveBG) =>
            /\ AudioProcs = {}
            /\ Exists(files, OutputPath)
            /\ files[OutputPath] = files[WithCaptionsPath]
            /\ files[OutputPath].data = "burn"
       /\ (haveVO \/ haveBG) =>
            \A i \in AudioProcs :
              /\ procs[i].out = OutputPath
              /\ procs[i].inputsOk
              /\ Exists(files, OutputPath) => files[OutputPath].data = procs[i].stage
       /\ ~haveBG => \A i \in 1..Len(procs) : ~UsesDucking(procs[i].stage)

\* C4 witness: voiceover without music; the voiceover mux has run to its end
\* and written output.mp4.
C4_Witness ==
  /\ audioBranch = "voiceover"
  /\ Exists(files, VoicePath)
  /\ ~Exists(files, MusicPath)
  /\ LastProc.stage = "muxVO"
  /\ LastProc.promise = "ok"
  /\ Exists(files, OutputPath)

\* The place of a stage in the order of renderVideo.
StageRank(stage) ==
  CASE stage = "probe" -> 0
    [] stage = "seg" -> 1
    [] stage = "concat" -> 2
    [] stage = "burn" -> 3
    [] OTHER -> 4

Completed(pr) == pr.state = "closed" /\ pr.promise = "ok"

\* C5: an ffmpeg process is started only after the one before it has
\* completed; every segment encode has completed with success before the
\* concatenation starts, the concatenation before the caption burn, the
\* caption burn before the audio mix, mux or copy; never are two processes of
\* a run in flight.
C5_StageOrder ==
  /\ Cardinality(InFlight) <= 1
  /\ \A i \in 1..Len(procs) : procs[i].state # "closed" => i = Len(procs)
  /\ \A i \in 1..(Len(procs) - 1) :
       /\ Completed(procs[i])
       /\ StageRank(procs[i].stage) <= StageRank(procs[i + 1].stage)
  /\ \A j \in 1..Len(procs) :
       /\ procs[j].stage = "concat" =>
            /\ \A k \in 1..Len(lines) :
                 \E i \in 1..(j - 1) : /\ procs[i].stage = "seg"
                                       /\ procs[i].arg = k
                                       /\ Completed(procs[i])
            /\ \A i \in 1..(j - 1) : procs[i].stage = "seg" => Completed(procs[i])
       /\ procs[j].stage = "burn" =>
            \E i \in 1..(j - 1) : procs[i].stage = "concat" /\ Completed(procs[i])
       /\ StageRank(procs[j].stage) = 4 =>
            \E i \in 1..(j - 1) : procs[i].stage = "burn" /\ Completed(procs[i])
  /\ audioBranch # "none" =>
       \E i \in 1..Len(procs) : procs[i].stage = "burn" /\ Completed(procs[i])

\* C5 witness: a run of two scenes whose audio mux is in flight after both
\* segment encodes, the concatenation and the caption burn.
C5_Witness ==
  /\ Len(lines) = 2
  /\ Len(procs) = 6
  /\ LastProc.state = "running"
  /\ StageRank(LastProc.stage) = 4

\* The files written by the stages after the stage of the given rank.
LaterOutputs(rank) ==
  (IF rank < 2 THEN {ConcatPath, NoCaptionsPath} ELSE {})
    \cup (IF rank < 3 THEN {WithCaptionsPath} ELSE {})
    \cup (IF rank < 4 THEN {OutputPath} ELSE {})

\* C6: when an ffmpeg invocation of the render exits non-zero or cannot be
\* started, no later invocation and no later output file exists, the run
\* does not go on (it waits for the rejection or has thrown, and the CLI
\* exits with 1), and no stage is invoked twice: once per scene for the
\* segment encodes, once for concat, burn and audio.
C6_AbortNoRetry ==
  /\ \A i \in 1..Len(procs) :
       (procs[i].stage # "probe" /\ (procs[i].promise = "fail" \/ procs[i].state = "nostart")) =>
         /\ i = Len(procs)
         /\ runPc \in {"segWait", "concatWait", "burnWait", "audioWait", "thrown"}
         /\ \A path \in LaterOutputs(StageRank(procs[i].stage)) : ~Exists(files, path)
         /\ audioBranch = "none" \/ StageRank(procs[i].stage) = 4
         /\ ~("Rendered" \in {stdout[k] : k \in 1..Len(stdout)})
         /\ cliPc = "exit" => /\ exitCode = 1
                              /\ runPc = "thrown"
                              /\ "viral failed" \in {stderr[k] : k \in 1..Len(stderr)}
  /\ \A i, j \in 1..Len(procs) :
       (i # j /\ StageRank(procs[i].stage) = StageRank(procs[j].stage)) =>
         /\ procs[i].stage = "seg"
         /\ procs[i].arg # procs[j].arg
  /\ \A i \in 1..Len(procs) : procs[i].stage = "seg" => procs[i].arg \in 1..Len(lines)

\* C6 witness: the concatenation exited non-zero after two segment encodes;
\* the CLI has reported the failure and exited with 1.
C6_Witness ==
  /\ Len(procs) = 4
  /\ LastProc.stage = "concat"
  /\ LastProc.state = "closed"
  /\ LastProc.promise = "fail"
  /\ runPc = "thrown"
  /\ runError = "concat fail"
  /\ cliPc = "exit"
  /\ exitCode = 1

\* "sceneNN.png" for the k-th scene, k below 10.
NumberedScene(k) == StrScene \o <<"0">> \o Digits(k) \o ExtPng

\* The files of a kit of n scenes in directory dir, before any rendering.
KitLayout(dir, n) ==
  {dir \o <<FScriptJson>>, dir \o <<FVoiceoverTxt>>, dir \o <<StrAudio, FVoiceoverMp3>>,
   dir \o <<FCaptionsAss>>, dir \o <<FStoryboardCsv>>, dir \o <<FReadmeMd>>}
    \cup {dir \o <<StrScenes, NumberedScene(k)>> : k \in 1..n}

\* C7: a dry run calls no generative backend and starts no ffmpeg process
\* (no probe, no render stage), does not fail, also without an API key, and
\* when it has returned the files are script.json, voiceover.txt, one
\* scenes/sceneNN.png per scene, audio/voiceover.mp3, captions.ass,
\* storyboard.csv and README.md: the files a real run has written when it
\* comes to rendering.
C7_DryRun ==
  /\ options.dryRun =>
       /\ backendCalls = <<>>
       /\ procs = <<>>
       /\ runPc # "thrown"
       /\ runPc = "returned" => DOMAIN files = KitLayout(outDir, cfg.SCENES_COUNT)
       /\ cliPc = "exit" => /\ exitCode = 0
                            /\ runPc = "returned"
                            /\ stderr = <<>>
  /\ (~options.dryRun /\ runPc = "probe" /\ extChanges = {}) =>
       DOMAIN files = KitLayout(outDir, cfg.SCENES_COUNT)

\* C7 witness: a dry run of two scenes without any API key has written the
\* kit and the CLI has exited with 0.
C7_Witness ==
  /\ options.dryRun
  /\ ResolveApiKey(env, userCfg) = ""
  /\ cfg.SCENES_COUNT = 2
  /\ Exists(files, PathJoin(outDir, <<StrScenes, NumberedScene(2)>>))
  /\ Exists(files, PathJoin(outDir, <<FReadmeMd>>))
  /\ cliPc = "exit"
  /\ exitCode = 0

\* The command line has --topic followed by a token that is not a --flag.
CarriesTopic(av) ==
  \E i \in 1..(Len(av) - 1) :
    /\ av[i] = TokTopic
    /\ ~(Len(av[i + 1]) >= 2 /\ SubSeq(av[i + 1], 1, 2) = <<"-", "-">>)

\* C8: an invocation that is not "setup" and has no --topic followed by a
\* non-flag value prints the usage text to stderr and exits non-zero; run
\* is never called and no directory or file is created.
C8_MissingTopic ==
  (/\ cliPc # "start"
   /\ runPc \in {"idle", "called"}
   /\ ~(Len(argv) > 0 /\ argv[1] = TokSetup)
   /\ ~CarriesTopic(argv)) =>
    /\ cliPc = "exit"
    /\ exitCode # 0
    /\ exitCode # -1
    /\ "usage" \in {stderr[k] : k \in 1..Len(stderr)}
    /\ runPc = "idle"
    /\ files = <<>>
    /\ dirs = {}
    /\ backendCalls = <<>>
    /\ procs = <<>>

\* C8 witness: `create --topic --male`, the topic flag followed by another
\* flag, has ended with the usage text and status 1.
C8_Witness ==
  /\ argv = <<TokCreate, TokTopic, TokMale>>
  /\ cliPc = "exit"
  /\ exitCode = 1
  /\ stderr = <<"missing-topic", "usage">>

\* <cwd>/video-<slugify(T)>
VideoSlugDir(t) == <<StrCwd, <<"v", "i", "d", "e", "o", "-">> \o slugify(t)>>

\* C9: after a successful dry-run create with topic T, script.json exists in
\* <cwd>/video-<slugify(T)>/.
C9_ScriptJsonInVideoSlugDir ==
  (options.dryRun /\ cliPc = "exit" /\ exitCode = 0) =>
    Exists(files, VideoSlugDir(topic) \o <<FScriptJson>>)

\* The gender of the last --male / --female of the command line, "null"
\* when there is none.
LastGenderFlag(av) ==
  LET at == {i \in 1..Len(av) : av[i] \in {TokMale, TokFemale}}
  IN IF at = {} THEN "null"
     ELSE LET last == CHOOSE i \in at : \A j \in at : j <= i
          IN IF av[last] = TokMale THEN "male" ELSE "female"

\* C10: the gender given to run is that of the last gender flag of the
\* command line; with gender male (female) the voice of the run is "alloy"
\* ("luna") whatever TTS_VOICE the environment or the user configuration
\* has, it is the voice of the speech request, and the ttsStyle saved in
\* script.json begins with the gender, in a dry run and whatever tts_style
\* the backend returned.
C10_GenderFlag ==
  /\ (cliPc = "create" /\ runPc = "called") => options.gender = LastGenderFlag(argv)
  /\ (options.gender # "null" /\ runPc \notin {"idle", "called"}) =>
       /\ cfg.TTS_VOICE = (IF options.gender = "male" THEN "alloy" ELSE "luna")
       /\ \A k \in 1..Len(backendCalls) :
            backendCalls[k].kind = "speech" => backendCalls[k].voice = cfg.TTS_VOICE
       /\ Exists(files, PathJoin(outDir, <<FScriptJson>>)) =>
            /\ files[PathJoin(outDir, <<FScriptJson>>)].data.ttsStyle # <<>>
            /\ Head(files[PathJoin(outDir, <<FScriptJson>>)].data.ttsStyle) = options.gender
       /\ Exists(files, PathJoin(outDir, <<FReadmeMd>>)) =>
            files[PathJoin(outDir, <<FReadmeMd>>)].data = cfg.TTS_VOICE

\* C10 witness: --female with TTS_VOICE set in the environment and in the
\* user configuration; the speech request was made with "luna" and
\* script.json is written.
C10_Witness ==
  /\ options.gender = "female"
  /\ env.TTS_VOICE = "nova"
  /\ userCfg.TTS_VOICE = "echo"
  /\ cfg.TTS_VOICE = "luna"
  /\ \E k \in 1..Len(backendCalls) : backendCalls[k] = BackendCall("speech", "luna")
  /\ Exists(files, PathJoin(outDir, <<FScriptJson>>))
  /\ Head(files[PathJoin(outDir, <<FScriptJson>>)].data.ttsStyle) = "female"

\* t is str without the white space at its two ends, and is not empty.
IsTrimmed(t, str) ==
  \E a \in 1..Len(str) : \E b \in a..Len(str) :
    /\ t = SubSeq(str, a, b)
    /\ str[a] \notin Whitespace
    /\ str[b] \notin Whitespace
    /\ \A i \in 1..Len(str) : (i < a \/ i > b) => str[i] \in Whitespace

NonBlank(str) == \E i \in 1..Len(str) : str[i] \notin Whitespace

\* $XDG_CONFIG_HOME/viral-video/config.json
XdgConfigJson ==
  <<xdgConfigHome, <<"v", "i", "r", "a", "l", "-", "v", "i", "d", "e", "o">>,
    <<"c", "o", "n", "f", "i", "g", ".", "j", "s", "o", "n">> >>

\* C11: `setup --openai-key K --elevenlabs-key E` with non-blank K and E
\* exits with 0 and leaves $XDG_CONFIG_HOME/viral-video/config.json with
\* OPENAI_API_KEY the trimmed K and ELEVENLABS_API_KEY the trimmed E; when
\* setup has no non-blank OpenAI key it exits non-zero and the configuration
\* files are as they were before.
C11_SetupPersists ==
  cliPc = "exit" =>
    /\ (/\ Len(argv) = 5
        /\ argv[2] = TokOpenaiKey
        /\ argv[4] = TokElevenlabsKey
        /\ argv[3] \in SetupValues /\ NonBlank(argv[3])
        /\ argv[5] \in SetupValues /\ NonBlank(argv[5])) =>
         /\ exitCode = 0
         /\ xdgConfigHome # <<>> =>
              /\ XdgConfigJson \in DOMAIN configFiles
              /\ DOMAIN configFiles[XdgConfigJson] = {"OPENAI_API_KEY", "ELEVENLABS_API_KEY"}
              /\ IsTrimmed(configFiles[XdgConfigJson].OPENAI_API_KEY, argv[3])
              /\ IsTrimmed(configFiles[XdgConfigJson].ELEVENLABS_API_KEY, argv[5])
    /\ ~(OPENAI_API_KEY.k = "str" /\ NonBlank(OPENAI_API_KEY.s)) =>
         /\ exitCode = 1
         /\ configFiles = configBefore
    /\ exitCode # 0 => configFiles = configBefore

\* C11 witness: both keys given, the OpenAI key with blanks around it, over
\* an earlier configuration; the file now holds the trimmed keys.
C11_Witness ==
  /\ argv = <<TokSetup, TokOpenaiKey, <<" ", "s", "k", " ">>, TokElevenlabsKey, <<"e", "l">> >>
  /\ xdgConfigHome = StrTmp
  /\ configBefore # <<>>
  /\ cliPc = "exit"
  /\ exitCode = 0
  /\ configFiles[XdgConfigJson] =
       [OPENAI_API_KEY |-> <<"s", "k">>, ELEVENLABS_API_KEY |-> <<"e", "l">>]

\* What a setting resolves to when it is taken from the environment, from
\* the user configuration, or from the defaults.
FromEnv(name) == IF name \in {"VIDEO_SEC", "SCENES_COUNT"} THEN Num(30) ELSE "from-env"
FromUser(name) == IF name \in {"VIDEO_SEC", "SCENES_COUNT"} THEN Num(45) ELSE "from-user"
FromDefault(name) ==
  CASE name = "TEXT_MODEL" -> "gpt-5"
    [] name = "IMAGE_MODEL" -> "gpt-image-1"
    [] name = "TTS_MODEL" -> "gpt-4o-mini-tts"
    [] name = "TTS_VOICE" -> "alloy"
    [] name = "VIDEO_SEC" -> Num(60)
    [] name = "SCENES_COUNT" -> Num(6)
    [] OTHER -> ""
\* The value of a variable that is set to the empty string.
EmptyAs(name) == IF name \in {"VIDEO_SEC", "SCENES_COUNT"} THEN NaN ELSE ""

\* C12 as stated: without a gender flag, each setting resolves to the
\* environment value whenever the environment variable is set, otherwise to
\* the user-config value whenever the user configuration defines it,
\* otherwise to the default.
C12_EnvThenUserThenDefault ==
  (kPc = "resolved" /\ kGender = "null") =>
    kCfg[kName] =
      IF kEnvState # "unset"
      THEN (IF kEnvState = "value" THEN FromEnv(kName) ELSE EmptyAs(kName))
      ELSE IF kUserState # "unset"
      THEN (IF kUserState = "value" THEN FromUser(kName) ELSE EmptyAs(kName))
      ELSE FromDefault(kName)

\* C12 amended: each setting resolves to the environment value whenever the
\* environment variable is set to a non-empty string, otherwise to the
\* user-config value whenever the user configuration defines a non-empty
\* value, otherwise to the default (VIDEO_SEC and SCENES_COUNT as the
\* integer parsed from that value); TTS_VOICE is replaced by alloy / luna
\* when a gender flag is given. A setting no layer sets has its default.
C12_NonEmptyEnvThenUserThenDefault ==
  kPc = "resolved" =>
    \A name \in DOMAIN kCfg :
      kCfg[name] =
        IF name = "TTS_VOICE" /\ kGender # "null"
        THEN (IF kGender = "male" THEN "alloy" ELSE "luna")
        ELSE IF name = kName /\ kEnvState = "value" THEN FromEnv(name)
        ELSE IF name = kName /\ kUserState = "value" THEN FromUser(name)
        ELSE FromDefault(name)

\* C12 witness: TTS_VOICE is set to the empty string in the environment and
\* to a voice in the user configuration; the voice of the user configuration
\* is resolved.
C12_Witness ==
  /\ kPc = "resolved"
  /\ kName = "TTS_VOICE"
  /\ kGender = "null"
  /\ kEnvState = "empty"
  /\ kUserState = "value"
  /\ kCfg.TTS_VOICE = "from-user"
  /\ DOMAIN kCfg = {"TEXT_MODEL", "IMAGE_MODEL", "TTS_MODEL", "TTS_VOICE", "VIDEO_SEC",
                    "SCENES_COUNT", "OPENAI_API_KEY"}

\* C13: run called without dryRun and with no OPENAI_API_KEY in the
\* environment or the user configuration throws 'Missing OPENAI_API_KEY'
\* before any directory, file, backend call or process exists; a dry run
\* never fails for the missing key.
C13_KeyGuard ==
  /\ (/\ runPc \notin {"idle", "called"}
      /\ ~options.dryRun
      /\ env.OPENAI_API_KEY = ""
      /\ userCfg.OPENAI_API_KEY = "") =>
       /\ runPc = "thrown"
       /\ runError = "Missing OPENAI_API_KEY"
       /\ dirs = {}
       /\ files = <<>>
       /\ outDir = <<>>
       /\ backendCalls = <<>>
       /\ procs = <<>>
       /\ cliPc = "exit" => exitCode = 1
  /\ runError = "Missing OPENAI_API_KEY" =>
       /\ ~options.dryRun
       /\ env.OPENAI_API_KEY = ""
       /\ userCfg.OPENAI_API_KEY = ""
  /\ (runPc \notin {"idle", "called"} /\ options.dryRun) => runPc # "thrown"

\* C13 witness: a real run without any key has thrown and the CLI has
\* exited with 1, nothing created.
C13_Witness ==
  /\ runError = "Missing OPENAI_API_KEY"
  /\ ~options.dryRun
  /\ cliPc = "exit"
  /\ exitCode = 1
  /\ dirs = {}
  /\ files = <<>>

\* renderVideo has begun (the probe has answered that ffmpeg is there).
Rendering == lines # <<>>

\* C14: when captions.ass does not exist at render time no caption burn is
\* invoked, the audio stage is given the concatenated video, and the run
\* does not fail for it.
C14_CaptionsOptional ==
  (Rendering /\ ~Exists(files, PathJoin(outDir, <<FCaptionsAss>>))) =>
    /\ \A i \in 1..Len(procs) : procs[i].stage # "burn"
    /\ runError # "burn captions fail"
    /\ audioBranch # "none" => video = NoCaptionsPath

\* C15: when the image of a storyboard row is missing as rendering starts,
\* no segment encode is started for any row and the run fails with an error
\* naming the file.
C15_MissingImageFailsFast ==
  (Rendering /\ \E k \in 1..Len(sceneFiles) : ~Exists(files, sceneFiles[k])) =>
    /\ \A i \in 1..Len(procs) : procs[i].stage # "seg"
    /\ runPc = "thrown" => runError \notin {"ffmpeg seg fail", "spawn ffmpeg failed"}

\* C16: when voiceover and music are both present, a loudness normalization
\* of the music has completed before the ducking mix is started, and the
\* mix reads the normalized music, not audio/music.mp3.
C16_MusicNormalizedFirst ==
  \A i \in 1..Len(procs) :
    procs[i].stage = "mix" =>
      /\ \E j \in 1..(i - 1) : procs[j].stage = "normalize" /\ Completed(procs[j])
      /\ MusicPath \notin {procs[i].arg[k] : k \in 1..Len(procs[i].arg)}

\* C17: in the plan generateScript returns, the seconds of the sections sum
\* to VIDEO_SEC, for every backend response with at least one section
\* (each of a positive number of seconds).
C17_PlanSectionsSumToT ==
  (/\ aPc = "returned"
   /\ aHasSections
   /\ Len(aSections) >= 1
   /\ \A i \in 1..Len(aSections) : JsGt(aSections[i], 0)) =>
    ReduceAdd(planSections, Num(0)) = Num(aT)

\* C19: when the section seconds of the backend sum to 0 the allocator
\* reports an error: it produces no durations.
C19_ZeroSumIsAnError ==
  (aHasSections /\ Len(aSections) >= 1 /\ SecTotal(aSections) = 0) =>
    aPc \notin {"dec", "inc", "done", "returned"}

\* C20: when the allocator has finished every section duration is at least
\* 2 seconds.
C20_TwoSecondFloor ==
  (aPc \in {"done", "returned"} /\ AllNumeric(aSections)) =>
    \A i \in 1..Len(durations) : JsGt(durations[i], 1)

\* r = Math.round(a / b) for positive b: the integer nearest to a / b, the
\* upper one at a half.
IsRounded(r, a, b) == 2 * b * r <= 2 * a + b /\ 2 * a + b < 2 * b * (r + 1)

\* C18: whatever image_prompts the backend returned, and in a dry run, the
\* plan has exactly SCENES_COUNT image prompts and exactly SCENES_COUNT
\* scenes numbered 1..SCENES_COUNT, each of round(VIDEO_SEC / SCENES_COUNT)
\* seconds; and run generates the images scene01.png, scene02.png, ... in
\* that order, SCENES_COUNT of them when the loop has ended.
C18_PlanShape ==
  /\ pPc \in {"images", "done", "thrown"} =>
       /\ Len(pImagePrompts) = pN
       /\ Len(pScenes) = pN
       /\ \A i \in 1..pN : /\ pScenes[i].i = i
                           /\ IsRounded(pScenes[i].sec, pT, pN)
       /\ Len(pImages) <= pN
       /\ \A k \in 1..Len(pImages) : pImages[k] = NumberedScene(k)
  /\ pPc = "done" => Len(pImages) = pN

\* C18 witness: the backend returned four prompts for two scenes; the plan
\* has two of each and both images are generated.
C18_Witness ==
  /\ pPc = "done"
  /\ ~pDry
  /\ pN = 2
  /\ pResponse.prompts.k = "list"
  /\ Len(pResponse.prompts.items) = 4
  /\ Len(pImagePrompts) = 2
  /\ pImages = <<NumberedScene(1), NumberedScene(2)>>

\* The sentence fragments of the narration before the cut to 10.
AllFragments(text) == FilterBoolean(SplitFrom(CollapseNewlines(text), 1, <<>>, <<>>))

\* max(2, floor(T / n)) for n >= 1.
NominalSpan(n, T) == IF T \div n > 2 THEN T \div n ELSE 2

\* C21 (as stated): for a text of n >= 1 fragments (n capped at 10) and
\* positive T, every cue except the last is exactly max(2, floor(T / n))
\* seconds long, also when T < 2 * n; the last cue ends at T.
C21_CueSpanExact ==
  (cPc = "done" /\ Len(cParts) >= 1) =>
    /\ \A i \in 1..(Len(cSpans) - 1) :
         cSpans[i].end - cSpans[i].start = NominalSpan(Len(cParts), cT)
    /\ cSpans[Len(cSpans)].end = cT

\* C21 (amended): every cue except the last is max(2, floor(T / n)) seconds
\* long unless that would pass T, and then it ends at T; the last cue ends
\* at T.
C21_CueSpanClamped ==
  (cPc = "done" /\ Len(cParts) >= 1) =>
    /\ \A i \in 1..(Len(cSpans) - 1) :
         cSpans[i].end - cSpans[i].start =
           Min(NominalSpan(Len(cParts), cT), cT - cSpans[i].start)
    /\ cSpans[Len(cSpans)].end = cT

\* C21 witness: three fragments in T < 2 * 3 seconds; the first cue has the
\* nominal length and the second is cut short at T.
C21_Witness ==
  /\ cPc = "done"
  /\ Len(cParts) = 3
  /\ cT < 6
  /\ cSpans[1].end - cSpans[1].start = NominalSpan(3, cT)
  /\ cSpans[2].end - cSpans[2].start < NominalSpan(3, cT)
  /\ cSpans[2].end = cT

\* C22: a text of zero fragments gives exactly one cue from 0 to T carrying
\* the original text; otherwise the cue texts are the first min(n, 10)
\* fragments of the text in their order, and no later fragment is in a cue.
C22_FragmentsAndCap ==
  cPc = "done" =>
    IF AllFragments(cText) = <<>>
    THEN cSpans = <<[start |-> 0, end |-> cT, text |-> cText]>>
    ELSE /\ Len(cSpans) = Min(Len(AllFragments(cText)), 10)
         /\ \A i \in 1..Len(cSpans) : cSpans[i].text = AllFragments(cText)[i]

\* C22 witness: twelve fragments, of which ten become cues.
C22_Witness ==
  /\ cPc = "done"
  /\ Len(AllFragments(cText)) = 12
  /\ Len(cSpans) = 10
  /\ cSpans[10].text = AllFragments(cText)[10]

\* C22 witness of the empty narration: one cue over the whole duration.
C22_EmptyWitness ==
  /\ cPc = "done"
  /\ cText = <<>>
  /\ cSpans = <<[start |-> 0, end |-> cT, text |-> <<>>]>>

\* C23: for every scene duration d >= 2 the zoom reaches its cap of 1.06 no
\* earlier than the last frame of the segment, frame d * 30.
C23_ZoomCapAtEnd ==
  (zDuration >= 2 /\ zZoom = 600) => zFrame >= zDuration * 30

\* C27: for every scene count N the concat manifest lists the segments in
\* the order of the storyboard rows, scene k before scene k + 1.
C27_ConcatInStoryboardOrder ==
  oPc = "done" =>
    /\ Len(oManifest) = oN
    /\ \A k \in 1..oN : oManifest[k] = SegName(oRows[k])

\* The end time of the last storyboard row: its start plus its duration.
LastRowEnd == ParseInt(sRows[Len(sRows)][2]).v + ParseInt(sRows[Len(sRows)][3]).v

\* C24: for all positive T and N the end time of the last storyboard row
\* differs from T by at most N - 1 seconds.
C24_BoundedDrift ==
  sPc = "done" =>
    /\ LastRowEnd - sT <= sN - 1
    /\ sT - LastRowEnd <= sN - 1

\* C24 witness: two scenes and an odd T; the storyboard ends one second
\* after T, the whole of the allowed drift.
C24_Witness ==
  /\ sPc = "done"
  /\ sN = 2
  /\ sT = 7
  /\ LastRowEnd = 8

\* A render stage has failed or fails in this step: the promise of the last
\* ffmpeg invocation of renderVideo is rejected.
RenderFailure(ps) == ps # <<>> /\ ps[Len(ps)].stage # "probe" /\ ps[Len(ps)].promise = "fail"

\* C25: when a render stage fails, every file already there is left in
\* place with its content, in the step that fails the stage and in every
\* step after it: the failure path deletes and rewrites nothing.
C25_NoCleanupOnFailure ==
  [][(RenderFailure(procs) \/ RenderFailure(procs')) =>
       \A q \in DOMAIN files : q \in DOMAIN files' /\ files'[q] = files[q]]_vars

\* C25 witness: the caption burn failed and the CLI has exited; the scene
\* image, the voiceover, the captions, the storyboard, the first segment,
\* the concat manifest and the concatenated video are all there.
C25_Witness ==
  /\ cliPc = "exit"
  /\ runPc = "thrown"
  /\ runError = "burn captions fail"
  /\ extChanges = {}
  /\ \A k \in 1..Len(sceneFiles) : Exists(files, sceneFiles[k])
  /\ Exists(files, VoicePath)
  /\ Exists(files, PathJoin(outDir, <<FCaptionsAss>>))
  /\ files[PathJoin(outDir, <<FStoryboardCsv>>)].data =
       toStoryboard(sceneFiles, PerScene(cfg.VIDEO_SEC, cfg.SCENES_COUNT))
  /\ Exists(files, PathJoin(SegsDir, <<SegName(NumberedScene(1))>>))
  /\ Exists(files, ConcatPath)
  /\ Exists(files, NoCaptionsPath)
  /\ ~Exists(files, WithCaptionsPath)

\* The segment encodes that have succeeded.
OkSegs == {i \in 1..Len(procs) : procs[i].stage = "seg" /\ procs[i].promise = "ok"}

\* C26: every ffmpeg invocation is settled exactly once, whatever the order
\* of its 'error' and 'close' events: the first event settles it, with
\* success only for a close with code 0 of a process that started; a later
\* event changes neither the outcome nor its reason, and moves nothing in
\* the pipeline; each successful segment encode advances the row loop once.
C26_SettledOnce ==
  [][/\ \A i \in 1..Len(procs) :
          /\ procs[i].promise = "ok" => procs[i].state = "closed" /\ procs[i].reason = "none"
          /\ procs[i].promise = "fail" => procs[i].reason \in {"spawn", "exit"}
          /\ procs[i].state \in {"errored", "closed"} => procs[i].promise # "pending"
          /\ procs[i].state \in {"running", "nostart"} => procs[i].promise = "pending"
          /\ procs[i].promise # "pending" =>
               /\ procs'[i].promise = procs[i].promise
               /\ procs'[i].reason = procs[i].reason
          /\ (procs[i].promise # "pending" /\ procs'[i] # procs[i]) =>
               UNCHANGED <<runPc, runError, segIdx, stdout, stderr, files>>
          /\ (procs[i].promise = "pending" /\ procs'[i].promise = "ok") =>
               procs[i].state = "running"
     /\ segIdx = Cardinality(OkSegs)
                   - (IF runPc = "segWait" /\ LastProc.promise = "ok" THEN 1 ELSE 0)]_vars

\* C26 witness: an ffmpeg that could not be started emitted 'error' and
\* then 'close'; the run has failed with the spawn error, once.
C26_Witness ==
  /\ procs # <<>>
  /\ LastProc.stage = "seg"
  /\ LastProc.state = "closed"
  /\ LastProc.reason = "spawn"
  /\ runPc = "thrown"
  /\ runError = "spawn ffmpeg failed"
  /\ cliPc = "exit"

\* C28: whenever --dry-run is among the create arguments, or DRY_RUN is "1"
\* or "true", run is called with dryRun true.
C28_DryRunFlagMeansDryRun ==
  (/\ cliPc = "create"
   /\ runPc = "called"
   /\ \/ \E i \in 1..Len(CreateArgv(argv)) : CreateArgv(argv)[i] = TokDryRun
      \/ env.DRY_RUN \in {"1", "true"}) =>
    options.dryRun

\* C29: after any sequence of runs into one working directory, the concat
\* manifest of a run has exactly one segment per row of that run's
\* storyboard, in row order, and nothing else.
C29_ManifestOfThisRunOnly ==
  rPc = "done" =>
    /\ Len(rManifest) = rN
    /\ \A k \in 1..rN : rManifest[k] = SegName(rRows[k])

\* The sum of the durations as the reconciliation loops are entered.
InitialSum == ReduceAdd(InitialDurations(aHasSections, aSections, aT), Num(0))

Distance(a, b) == IF a > b THEN a - b ELSE b - a

C30_NaNWitness ==
  /\ aPc = "returned"
  /\ ~IsNum(InitialSum)
  /\ aIters = 0

====
